---- MODULE Spec2Model ----
(***************************************************************************)
(* A model of the gbcrs Game Boy core: the address-decoded bus             *)
(* (src/src/arch.rs), the memory, cartridge, PPU and APU bus faces, and    *)
(* the CPU pipeline with its per-opcode step functions                     *)
(* (src/src/arch/cpu.rs).  Bytes are integers 0..255, words 0..65535.      *)
(* A Rust panic (panic!, todo!, unimplemented!, an overflow check of a     *)
(* debug build) ends the run: the model records it in `panicked`.          *)
(***************************************************************************)
EXTENDS Integers, Sequences, FiniteSets, TLC

VARIABLES
    bus,              \* the Bus struct: cpu, ppu, mem, cart, boot_rom, boot_disabled
    mode,             \* the SystemMode given to Bus::new
    panicked,         \* a panic has ended the run
    overflow_checks,  \* "unset" until an integer overflow happens, then "on" | "off"
    instrs,           \* history: the instructions decoded so far, oldest first
    bus_log,          \* history: the bus transactions of the last Cpu::tcycle call
    calls,            \* history: the direct Bus::read / Bus::write calls made
    level             \* the LevelFilter main.rs gives the logger

vars == <<bus, mode, panicked, overflow_checks, instrs, bus_log, calls, level>>

----------------------------------------------------------------------------
(* Bounds of the model.                                                    *)

\* Instructions decoded per run (instr_count starts at 1).
MaxInstr == 4
\* Instructions decoded per run while PC is inside the loaded image or in the
\* last two bytes of the address space.
MaxRun == 10
\* Direct Bus::read / Bus::write calls per run of the bus driver.
MaxBusOps == 3

----------------------------------------------------------------------------
(* u8 / u16 arithmetic.                                                    *)

Bit(v, i) == (v \div (2 ^ i)) % 2

And8(a, b) ==
    Bit(a, 0) * Bit(b, 0) + 2 * Bit(a, 1) * Bit(b, 1) + 4 * Bit(a, 2) * Bit(b, 2)
    + 8 * Bit(a, 3) * Bit(b, 3) + 16 * Bit(a, 4) * Bit(b, 4) + 32 * Bit(a, 5) * Bit(b, 5)
    + 64 * Bit(a, 6) * Bit(b, 6) + 128 * Bit(a, 7) * Bit(b, 7)

Or8(a, b) == a + b - And8(a, b)

Xor8(a, b) == a + b - 2 * And8(a, b)

Not8(a) == 255 - a

\* u8 `<<` and `>>`: bits shifted out of the byte are lost.
Shl8(a, n) == (a * (2 ^ n)) % 256

Shr8(a, n) == a \div (2 ^ n)

rotate_left(a) == Shl8(a, 1) + Bit(a, 7)

rotate_right(a) == Shr8(a, 1) + 128 * Bit(a, 0)

wrapping_add8(a, b) == (a + b) % 256

wrapping_sub8(a, b) == (a - b + 256) % 256

wrapping_add16(a, b) == (a + b) % 65536

wrapping_sub16(a, b) == (a - b + 65536) % 65536

\* `x as i8 as u16`: sign extension of a byte to a word.
SignExtend(x) == IF x >= 128 THEN x + 65280 ELSE x

Hi(w) == w \div 256

Lo(w) == w % 256

Word(hi, lo) == hi * 256 + lo

BoolToInt(b) == IF b THEN 1 ELSE 0

\* A byte read as a signed number.
SignExtend8(x) == IF x >= 128 THEN x - 256 ELSE x

----------------------------------------------------------------------------
(* FlagsReg.                                                               *)

Zero == \h80

Negative == \h40

HalfCarry == \h20

Carry == \h10

from_bits_truncate(bits) == And8(bits, \hF0)

\* FlagsReg::contains / FlagsReg::intersects of a one-bit flag.
contains(f, flag) == And8(f, flag) # 0

\* FlagsReg::set: insert the flag when value holds, remove it otherwise.
FlagSet(f, flag, value) == IF value THEN Or8(f, flag) ELSE And8(f, Not8(flag))

----------------------------------------------------------------------------
(* SystemMode and the register file.                                       *)

Modes == {"Gameboy", "GameboyPocket", "SuperGameboy", "GameboyColorDMG", "GameboyColorGBC"}

MkRegs(a, f, b, c, d, e, h, l) ==
    [a |-> a, f |-> from_bits_truncate(f), b |-> b, c |-> c, d |-> d, e |-> e,
     h |-> h, l |-> l, sp |-> \hFFFE, pc |-> 0]

Regs_new(m) ==
    CASE m = "Gameboy"         -> MkRegs(\h01, \hB0, \h00, \h13, \h00, \hD8, \h01, \h4D)
      [] m = "GameboyPocket"   -> MkRegs(\hFF, \hB0, \h00, \h13, \h00, \hD8, \h01, \h4D)
      [] m = "SuperGameboy"    -> MkRegs(\h01, \h00, \h00, \h14, \h00, \h00, \hC0, \h60)
      [] m = "GameboyColorDMG" -> MkRegs(\h11, \h80, \h00, \h00, \h00, \h08, \h00, \h7C)
      [] m = "GameboyColorGBC" -> MkRegs(\h11, \h80, \h00, \h00, \hFF, \h56, \h00, \h0D)

af(r) == Word(r.a, r.f)

bc(r) == Word(r.b, r.c)

de(r) == Word(r.d, r.e)

hl(r) == Word(r.h, r.l)

splo(r) == Lo(r.sp)

sphi(r) == Hi(r.sp)

pclo(r) == Lo(r.pc)

pchi(r) == Hi(r.pc)

\* set_af stores the low byte in F as it is, the low nibble included.
set_af(r, val) == [r EXCEPT !.a = Hi(val), !.f = Lo(val)]

set_bc(r, val) == [r EXCEPT !.b = Hi(val), !.c = Lo(val)]

set_de(r, val) == [r EXCEPT !.d = Hi(val), !.e = Lo(val)]

set_hl(r, val) == [r EXCEPT !.h = Hi(val), !.l = Lo(val)]

set_splo(r, val) == [r EXCEPT !.sp = Word(Hi(r.sp), val)]

set_sphi(r, val) == [r EXCEPT !.sp = Word(val, Lo(r.sp))]

set_pclo(r, val) == [r EXCEPT !.pc = Word(Hi(r.pc), val)]

set_pchi(r, val) == [r EXCEPT !.pc = Word(val, Lo(r.pc))]

----------------------------------------------------------------------------
(* Arrays whose cells start at zero (wram, hram, vram), kept as the map of *)
(* their non-zero cells.                                                   *)

EmptyCells == [k \in {} |-> 0]

Load(cells, k) == IF k \in DOMAIN cells THEN cells[k] ELSE 0

Store(cells, k, v) ==
    IF v = 0
    THEN [x \in (DOMAIN cells) \ {k} |-> cells[x]]
    ELSE [x \in (DOMAIN cells) \cup {k} |-> IF x = k THEN v ELSE cells[x]]

\* The result of a read that panicked.
PANIC == 0 - 1

Ok(v) == [ok |-> TRUE, v |-> v]

Fail(v) == [ok |-> FALSE, v |-> v]

InRange(addr, lo, hi) == lo <= addr /\ addr <= hi

max(a, b) == IF a >= b THEN a ELSE b

----------------------------------------------------------------------------
(* Memory (src/src/arch/memory.rs).                                        *)

Memory_new ==
    [wram |-> EmptyCells, wbank |-> 0, undoc_regs |-> <<0, 0, 0, 0>>, hram |-> EmptyCells]

RECURSIVE Memory_read(_, _)
\* Variant: the echo arm of read subtracts 0x1000.
Memory_read_echo_short(mem, addr) ==
    CASE InRange(addr, \hC000, \hCFFF) -> Load(mem.wram, <<0, addr % \h1000>>)
      [] InRange(addr, \hD000, \hDFFF) -> Load(mem.wram, <<max(mem.wbank, 1), addr % \h1000>>)
      [] InRange(addr, \hE000, \hFDFF) -> Memory_read(mem, addr - \h1000)
      [] addr = \hFF70 -> mem.wbank % 8
      [] addr = \hFF72 /\ mode = "GameboyColorGBC" -> mem.undoc_regs[1]
      [] addr = \hFF73 /\ mode = "GameboyColorGBC" -> mem.undoc_regs[2]
      [] addr = \hFF74 /\ mode = "GameboyColorGBC" -> mem.undoc_regs[3]
      [] addr = \hFF74 /\ mode # "GameboyColorGBC" -> \hFF
      [] addr = \hFF75 /\ mode = "GameboyColorGBC" -> And8(mem.undoc_regs[4], \h70)
      [] InRange(addr, \hFF80, \hFFFE) -> Load(mem.hram, addr % \h80)
      [] OTHER -> PANIC

Memory_read(mem, addr) ==
    CASE InRange(addr, \hC000, \hCFFF) -> Load(mem.wram, <<0, addr % \h1000>>)
      [] InRange(addr, \hD000, \hDFFF) -> Load(mem.wram, <<max(mem.wbank, 1), addr % \h1000>>)
      [] InRange(addr, \hE000, \hFDFF) -> Memory_read(mem, addr - \h2000)
      [] addr = \hFF70 -> mem.wbank % 8
      [] addr = \hFF72 /\ mode = "GameboyColorGBC" -> mem.undoc_regs[1]
      [] addr = \hFF73 /\ mode = "GameboyColorGBC" -> mem.undoc_regs[2]
      [] addr = \hFF74 /\ mode = "GameboyColorGBC" -> mem.undoc_regs[3]
      [] addr = \hFF74 /\ mode # "GameboyColorGBC" -> \hFF
      [] addr = \hFF75 /\ mode = "GameboyColorGBC" -> And8(mem.undoc_regs[4], \h70)
      [] InRange(addr, \hFF80, \hFFFE) -> Load(mem.hram, addr % \h80)
      [] OTHER -> PANIC

RECURSIVE Memory_write(_, _, _)
\* Variant: the bank select keeps the whole byte.
Memory_store_bank_unmasked(mem, addr, data) ==
    CASE InRange(addr, \hC000, \hCFFF) ->
            Ok([mem EXCEPT !.wram = Store(@, <<0, addr % \h1000>>, data)])
      [] InRange(addr, \hD000, \hDFFF) ->
            Ok([mem EXCEPT !.wram = Store(@, <<max(mem.wbank, 1), addr % \h1000>>, data)])
      [] InRange(addr, \hE000, \hFDFF) -> Memory_write(mem, addr - \h2000, data)
      [] addr = \hFF70 -> Ok([mem EXCEPT !.wbank = data])
      [] addr = \hFF72 /\ mode = "GameboyColorGBC" -> Ok([mem EXCEPT !.undoc_regs[1] = data])
      [] addr = \hFF73 /\ mode = "GameboyColorGBC" -> Ok([mem EXCEPT !.undoc_regs[2] = data])
      [] addr = \hFF74 /\ mode = "GameboyColorGBC" -> Ok([mem EXCEPT !.undoc_regs[3] = data])
      [] addr = \hFF75 /\ mode = "GameboyColorGBC" ->
            Ok([mem EXCEPT !.undoc_regs[4] = And8(data, \h70)])
      [] InRange(addr, \hFF80, \hFFFE) -> Ok([mem EXCEPT !.hram = Store(@, addr % \h80, data)])
      [] OTHER -> Fail(mem)

\* The match of Memory::write, before the checks that follow it.
Memory_store(mem, addr, data) ==
    CASE InRange(addr, \hC000, \hCFFF) ->
            Ok([mem EXCEPT !.wram = Store(@, <<0, addr % \h1000>>, data)])
      [] InRange(addr, \hD000, \hDFFF) ->
            Ok([mem EXCEPT !.wram = Store(@, <<max(mem.wbank, 1), addr % \h1000>>, data)])
      [] InRange(addr, \hE000, \hFDFF) -> Memory_write(mem, addr - \h2000, data)
      [] addr = \hFF70 -> Ok([mem EXCEPT !.wbank = data % 8])
      [] addr = \hFF72 /\ mode = "GameboyColorGBC" -> Ok([mem EXCEPT !.undoc_regs[1] = data])
      [] addr = \hFF73 /\ mode = "GameboyColorGBC" -> Ok([mem EXCEPT !.undoc_regs[2] = data])
      [] addr = \hFF74 /\ mode = "GameboyColorGBC" -> Ok([mem EXCEPT !.undoc_regs[3] = data])
      [] addr = \hFF75 /\ mode = "GameboyColorGBC" ->
            Ok([mem EXCEPT !.undoc_regs[4] = And8(data, \h70)])
      [] InRange(addr, \hFF80, \hFFFE) -> Ok([mem EXCEPT !.hram = Store(@, addr % \h80, data)])
      [] OTHER -> Fail(mem)

Memory_write(mem, addr, data) ==
    LET r == Memory_store(mem, addr, data)
    IN  IF r.ok /\ addr = \hDD02 /\ (data # Memory_read(r.v, addr) \/ data = 0)
        THEN Fail(r.v)
        ELSE r

----------------------------------------------------------------------------
(* Cartridge (src/src/arch/cartridge.rs).                                  *)

Cartridge_new == [rom |-> <<>>]

Cartridge_write(cart, addr, data) ==
    IF InRange(addr, \h0000, \h00FF) THEN Ok(cart) ELSE Fail(cart)

Cartridge_read(cart, addr) ==
    IF InRange(addr, \h0000, \h7FFF)
    THEN IF addr < Len(cart.rom) THEN cart.rom[addr + 1] ELSE \hFF
    ELSE PANIC

----------------------------------------------------------------------------
(* Apu (src/src/arch/apu.rs): every write is accepted, every read is todo. *)

Apu_write(apu, addr, data) == Ok(apu)

Apu_read(apu, addr) == PANIC

----------------------------------------------------------------------------
(* Ppu bus face (src/src/arch/ppu.rs).                                     *)

Ppu_new ==
    [vram |-> EmptyCells, lcdc |-> 0, stat |-> 0, bgp |-> 0, scy |-> 0, scx |-> 0,
     ly |-> \h90, lyc |-> 0, wy |-> 0, wx |-> 0]

Ppu_write(ppu, addr, data) ==
    CASE InRange(addr, \h8000, \h9FFF) -> Ok([ppu EXCEPT !.vram = Store(@, addr % \h2000, data)])
      [] addr = \hFF40 -> Ok([ppu EXCEPT !.lcdc = data])
      [] addr = \hFF41 -> Ok([ppu EXCEPT !.stat = data])
      [] addr = \hFF42 -> Ok([ppu EXCEPT !.scy = data])
      [] addr = \hFF43 -> Ok([ppu EXCEPT !.scx = data])
      [] addr = \hFF44 -> Ok(ppu)
      [] addr = \hFF45 -> Ok([ppu EXCEPT !.lyc = data])
      [] addr = \hFF47 -> Ok([ppu EXCEPT !.bgp = data])
      [] addr = \hFF4A -> Ok([ppu EXCEPT !.wy = data])
      [] addr = \hFF4B -> Ok([ppu EXCEPT !.wx = data])
      [] OTHER -> Fail(ppu)

Ppu_read(ppu, addr) ==
    CASE InRange(addr, \h8000, \h9FFF) -> Load(ppu.vram, addr % \h2000)
      [] addr = \hFF40 -> ppu.lcdc
      [] addr = \hFF41 -> ppu.stat
      [] addr = \hFF42 -> ppu.scy
      [] addr = \hFF43 -> ppu.scx
      [] addr = \hFF44 -> ppu.ly
      [] addr = \hFF45 -> ppu.lyc
      [] addr = \hFF47 -> ppu.bgp
      [] addr = \hFF4A -> ppu.wy
      [] addr = \hFF4B -> ppu.wx
      [] OTHER -> PANIC

----------------------------------------------------------------------------
(* Cpu: construction and bus face (src/src/arch/cpu.rs).                   *)

None == <<>>

Some(x) == <<x>>

unwrap(opt) == opt[1]

Cpu_new(m) ==
    [instr_count |-> 1, tcount |-> 0, procedure |-> None, regs |-> Regs_new(m),
     interrupt_flags |-> 0, interrupt_enable |-> 0,
     en_ime |-> <<FALSE, 0>>, ime |-> FALSE]

Cpu_write(cpu, addr, data) ==
    CASE addr = \hFF01 -> Ok(cpu)
      [] addr = \hFF02 -> Ok(cpu)
      [] addr = \hFF07 -> Ok(cpu)
      [] addr = \hFF0F -> Ok([cpu EXCEPT !.interrupt_flags = data])
      [] addr = \hFFFF -> Ok([cpu EXCEPT !.interrupt_enable = data])
      [] OTHER -> Fail(cpu)

Cpu_read(cpu, addr) ==
    IF addr = \hFFFF THEN cpu.interrupt_enable ELSE PANIC

----------------------------------------------------------------------------
(* Bus (src/src/arch.rs).                                                  *)

\* boot_rom holds the leading bytes of the 256-byte image; the rest are zero.
Bus_new(m) ==
    [cpu |-> Cpu_new(m), ppu |-> Ppu_new, mem |-> Memory_new, cart |-> Cartridge_new,
     apu |-> <<>>, boot_rom |-> <<>>, boot_disabled |-> 0]

boot_rom_at(b, addr) == IF addr < Len(b.boot_rom) THEN b.boot_rom[addr + 1] ELSE 0

\* Lift the result of a component's write into the bus.
InCpu(b, r) == [ok |-> r.ok, v |-> [b EXCEPT !.cpu = r.v]]

InPpu(b, r) == [ok |-> r.ok, v |-> [b EXCEPT !.ppu = r.v]]

InMem(b, r) == [ok |-> r.ok, v |-> [b EXCEPT !.mem = r.v]]

InCart(b, r) == [ok |-> r.ok, v |-> [b EXCEPT !.cart = r.v]]

InApu(b, r) == [ok |-> r.ok, v |-> [b EXCEPT !.apu = r.v]]

\* A variant of the guard with the test of the latch inverted.
BootMapped_inverted(b, addr) == InRange(addr, \h0000, \h00FF) /\ b.boot_disabled # 0

\* The guard of the first arm of both matches:
\* `0x0000..=0x00FF if self.boot_disabled == 0`.
BootMapped(b, addr) == InRange(addr, \h0000, \h00FF) /\ b.boot_disabled = 0

Bus_write(b, addr, data) ==
    CASE BootMapped(b, addr) -> Ok(b)
      [] InRange(addr, \h0000, \h00FF) /\ ~BootMapped(b, addr) ->
            InCart(b, Cartridge_write(b.cart, addr, data))
      [] InRange(addr, \h0100, \h7FFF) -> InCart(b, Cartridge_write(b.cart, addr, data))
      [] InRange(addr, \h8000, \h9FFF) -> InPpu(b, Ppu_write(b.ppu, addr, data))
      [] InRange(addr, \hA000, \hBFFF) -> InCart(b, Cartridge_write(b.cart, addr, data))
      [] InRange(addr, \hC000, \hFDFF) -> InMem(b, Memory_write(b.mem, addr, data))
      [] InRange(addr, \hFE00, \hFEFF) -> InPpu(b, Ppu_write(b.ppu, addr, data))
      [] InRange(addr, \hFF00, \hFF02) \/ InRange(addr, \hFF04, \hFF07) ->
            InCpu(b, Cpu_write(b.cpu, addr, data))
      [] addr = \hFF0F -> InCpu(b, Cpu_write(b.cpu, addr, data))
      [] InRange(addr, \hFF10, \hFF26) \/ InRange(addr, \hFF30, \hFF3F) ->
            InApu(b, Apu_write(b.apu, addr, data))
      [] InRange(addr, \hFF40, \hFF4B) \/ addr = \hFF4F -> InPpu(b, Ppu_write(b.ppu, addr, data))
      [] addr = \hFF50 -> Ok([b EXCEPT !.boot_disabled = data])
      [] InRange(addr, \hFF51, \hFF55) \/ InRange(addr, \hFF68, \hFF69) ->
            InPpu(b, Ppu_write(b.ppu, addr, data))
      [] addr = \hFF70 -> InMem(b, Memory_write(b.mem, addr, data))
      [] InRange(addr, \hFF72, \hFF75) -> InMem(b, Memory_write(b.mem, addr, data))
      [] InRange(addr, \hFF76, \hFF77) -> InApu(b, Apu_write(b.apu, addr, data))
      [] InRange(addr, \hFF80, \hFFFE) -> InMem(b, Memory_write(b.mem, addr, data))
      [] addr = \hFFFF -> InCpu(b, Cpu_write(b.cpu, addr, data))
      [] OTHER -> Fail(b)

Bus_read(b, addr) ==
    CASE BootMapped(b, addr) -> boot_rom_at(b, addr)
      [] InRange(addr, \h0000, \h00FF) /\ ~BootMapped(b, addr) -> Cartridge_read(b.cart, addr)
      [] InRange(addr, \h0100, \h7FFF) -> Cartridge_read(b.cart, addr)
      [] InRange(addr, \h8000, \h9FFF) -> Ppu_read(b.ppu, addr)
      [] InRange(addr, \hA000, \hBFFF) -> Cartridge_read(b.cart, addr)
      [] InRange(addr, \hC000, \hFDFF) -> Memory_read(b.mem, addr)
      [] InRange(addr, \hFE00, \hFEFF) -> Ppu_read(b.ppu, addr)
      [] InRange(addr, \hFF00, \hFF02) \/ InRange(addr, \hFF04, \hFF07) -> Cpu_read(b.cpu, addr)
      [] addr = \hFF0F -> Cpu_read(b.cpu, addr)
      [] InRange(addr, \hFF10, \hFF26) \/ InRange(addr, \hFF30, \hFF3F) -> Apu_read(b.apu, addr)
      [] InRange(addr, \hFF40, \hFF4B) \/ addr = \hFF4F -> Ppu_read(b.ppu, addr)
      [] addr = \hFF50 -> b.boot_disabled
      [] InRange(addr, \hFF51, \hFF55) \/ InRange(addr, \hFF68, \hFF69) -> Ppu_read(b.ppu, addr)
      [] addr = \hFF70 -> Memory_read(b.mem, addr)
      [] InRange(addr, \hFF72, \hFF75) -> Memory_read(b.mem, addr)
      [] InRange(addr, \hFF76, \hFF77) -> Apu_read(b.apu, addr)
      [] InRange(addr, \hFF80, \hFFFE) -> Memory_read(b.mem, addr)
      [] addr = \hFFFF -> Cpu_read(b.cpu, addr)
      [] OTHER -> PANIC

----------------------------------------------------------------------------
(* ALU utilities (cpu.rs, "ALU Utilities"): (result, zero, negative, half, *)
(* carry).                                                                 *)

\* A variant of alu_add that takes the half carry from bit 4 of the result.
alu_add_half_of_result(lhs, rhs) ==
    LET result == wrapping_add8(lhs, rhs)
    IN  [result |-> result, zer |-> result = 0, neg |-> result >= 128,
         half |-> And8(result, \h10) # 0,
         carry |-> lhs + rhs > 255]

alu_add(lhs, rhs) ==
    LET result == wrapping_add8(lhs, rhs)
    IN  [result |-> result, zer |-> result = 0, neg |-> result >= 128,
         half |-> And8(wrapping_add8(lhs % 16, rhs % 16), \h10) # 0,
         carry |-> lhs + rhs > 255]

\* A variant of alu_add_u16 that takes the half carry out of bit 7.
alu_add_u16_half_of_low_byte(lhs, rhs) ==
    LET result == wrapping_add16(lhs, rhs)
    IN  [result |-> result, zer |-> result = 0, neg |-> result >= 32768,
         half |-> (lhs % 256) + (rhs % 256) > 255,
         carry |-> lhs + rhs > 65535]

alu_add_u16(lhs, rhs) ==
    LET result == wrapping_add16(lhs, rhs)
    IN  [result |-> result, zer |-> result = 0, neg |-> result >= 32768,
         half |-> Bit(wrapping_add16(lhs % \h1000, rhs % \h1000), 12) # 0,
         carry |-> lhs + rhs > 65535]

\* A variant of alu_sub that also reports a borrow when the operands are equal.
alu_sub_carry_on_equal(lhs, rhs) ==
    LET result == wrapping_sub8(lhs, rhs)
    IN  [result |-> result, zer |-> result = 0, neg |-> result >= 128,
         half |-> And8(wrapping_sub8(lhs % 16, rhs % 16), \h10) # 0,
         carry |-> lhs <= rhs]

alu_sub(lhs, rhs) ==
    LET result == wrapping_sub8(lhs, rhs)
    IN  [result |-> result, zer |-> result = 0, neg |-> result >= 128,
         half |-> And8(wrapping_sub8(lhs % 16, rhs % 16), \h10) # 0,
         carry |-> lhs < rhs]

\* A variant of alu_adc whose carry ignores the carry-in.
alu_adc_carry_without_in(lhs, rhs, carry) ==
    LET result == wrapping_add8(wrapping_add8(lhs, rhs), BoolToInt(carry))
    IN  [result |-> result, zer |-> result = 0, neg |-> result >= 128,
         half |-> And8(wrapping_add8(wrapping_add8(lhs % 16, rhs % 16), BoolToInt(carry)),
                       \h10) # 0,
         carry |-> lhs + rhs > 255]

alu_adc(lhs, rhs, carry) ==
    LET result == wrapping_add8(wrapping_add8(lhs, rhs), BoolToInt(carry))
    IN  [result |-> result, zer |-> result = 0, neg |-> result >= 128,
         half |-> And8(wrapping_add8(wrapping_add8(lhs % 16, rhs % 16), BoolToInt(carry)),
                       \h10) # 0,
         carry |-> (lhs + rhs > 255) \/ (carry /\ result = 0)]

----------------------------------------------------------------------------
(* One Cpu::tcycle call in progress.  T = [bus, proc, panicked, oc, ovf,   *)
(* log]: the bus (the cpu inside it), the copy of the procedure being      *)
(* stepped, whether a panic happened, whether the build checks integer     *)
(* overflow (oc), whether an overflow happened (ovf), and the bus          *)
(* transactions made so far.                                               *)

R(T) == T.bus.cpu.regs

M(T) == T.proc.mcycle

Set(T, name, v) == [T EXCEPT !.bus.cpu.regs[name] = v]

SetRegs(T, r) == [T EXCEPT !.bus.cpu.regs = r]

SetF(T, flag, value) == [T EXCEPT !.bus.cpu.regs.f = FlagSet(@, flag, value)]

SetTmp0(T, v) == [T EXCEPT !.proc.tmp0 = v]

SetTmp1(T, v) == [T EXCEPT !.proc.tmp1 = v]

Done(T) == [T EXCEPT !.proc.done = TRUE]

Panic(T) == [T EXCEPT !.panicked = TRUE]

\* Nothing of a call runs after a panic: the operations below leave a panicked
\* T as it is.

\* An integer overflow: a panic where the build checks it, a wrap otherwise.
Overflow(T) ==
    IF T.panicked THEN T
    ELSE [T EXCEPT !.ovf = TRUE, !.panicked = T.oc]

\* bus.read(addr): the state after the read, and the byte read.
rd(T, addr) ==
    IF T.panicked THEN T
    ELSE [T EXCEPT !.log = Append(@, <<"read", addr>>),
                   !.panicked = Bus_read(T.bus, addr) = PANIC]

rv(T, addr) == LET v == Bus_read(T.bus, addr) IN IF v = PANIC THEN 0 ELSE v

\* bus.write(addr, data).
wr(T, addr, data) ==
    LET r == Bus_write(T.bus, addr, data)
    IN  IF T.panicked THEN T
        ELSE [T EXCEPT !.log = Append(@, <<"write", addr, data>>),
                       !.bus = IF r.ok THEN r.v ELSE @,
                       !.panicked = ~r.ok]

\* `cpu.regs.pc - k` and `cpu.regs.pc += 1`, with u16 overflow.
PcMinus(T, k) == wrapping_sub16(R(T).pc, k)

CheckPcMinus(T, k) == IF R(T).pc < k THEN Overflow(T) ELSE T

\* Cpu::fetch: the byte at PC (fetched) and the state after it (fetch).
fetched(T) == rv(T, R(T).pc)

\* A variant of fetch that leaves PC where it is.
fetch_no_increment(T) == rd(T, R(T).pc)

fetch(T) ==
    LET T1 == rd(T, R(T).pc)
        T2 == IF R(T1).pc = \hFFFF THEN Overflow(T1) ELSE T1
    IN  Set(T2, "pc", wrapping_add16(R(T1).pc, 1))

\* A variant of stack_push whose decrement stops at zero.
stack_push_saturating(T, data) ==
    LET T1 == Set(T, "sp", IF R(T).sp = 0 THEN 0 ELSE R(T).sp - 1)
    IN  wr(T1, R(T1).sp, data)

\* Cpu::stack_push.
stack_push(T, data) ==
    LET T1 == Set(T, "sp", wrapping_sub16(R(T).sp, 1))
    IN  wr(T1, R(T1).sp, data)

\* Cpu::stack_pop: the byte at SP (popped) and the state after it (stack_pop).
popped(T) == rv(T, R(T).sp)

stack_pop(T) ==
    LET T1 == rd(T, R(T).sp)
    IN  Set(T1, "sp", wrapping_add16(R(T1).sp, 1))

\* The re-read of the opcode byte at PC - k: the state after it and the byte.
reread(T, k) == rd(CheckPcMinus(T, k), PcMinus(T, k))

opcode_at(T, k) == rv(T, PcMinus(T, k))

\* Field extraction of the decode: y = bits 5..3, z = bits 2..0, p = bits 5..4.
Y(opcode) == (opcode \div 8) % 8

Z(opcode) == opcode % 8

P(opcode) == (opcode \div 16) % 4

X(opcode) == opcode \div 64

Q(opcode) == (opcode \div 8) % 2

\* The register of the tables r[y] / r[z]; index 6, (HL), is handled by the caller.
RegName(i) ==
    CASE i = 0 -> "b" [] i = 1 -> "c" [] i = 2 -> "d" [] i = 3 -> "e"
      [] i = 4 -> "h" [] i = 5 -> "l" [] i = 7 -> "a"

Reg(T, i) == R(T)[RegName(i)]

\* The operand table of the A,r ALU steps, which reads D for index 3.
AluOperand(T, i) == IF i = 3 THEN R(T).d ELSE Reg(T, i)

\* A variant of Cond with the Z and NZ tests exchanged.
Cond_swapped(T, y) ==
    CASE y = 0 -> contains(R(T).f, Zero)
      [] y = 1 -> ~contains(R(T).f, Zero)
      [] y = 2 -> ~contains(R(T).f, Carry)
      [] y = 3 -> contains(R(T).f, Carry)

\* cc[y]: NZ, Z, NC, C.
Cond(T, y) ==
    CASE y = 0 -> ~contains(R(T).f, Zero)
      [] y = 1 -> contains(R(T).f, Zero)
      [] y = 2 -> ~contains(R(T).f, Carry)
      [] y = 3 -> contains(R(T).f, Carry)

----------------------------------------------------------------------------
(* Instruction functions: one call advances the instruction by one         *)
(* M-cycle.  Each is the match on proc.mcycle of its source function.      *)

nop(T) == Done(T)

stop(T) == Panic(T)

ld_u16sp(T) ==
    CASE M(T) = 2 -> SetTmp0(fetch(T), fetched(T))
      [] M(T) = 3 -> SetTmp1(fetch(T), fetched(T))
      [] M(T) = 4 -> wr(T, Word(T.proc.tmp1, T.proc.tmp0), splo(R(T)))
      [] M(T) = 5 -> Done(wr(T, Word(T.proc.tmp1, T.proc.tmp0), sphi(R(T))))
      [] OTHER -> T

ld_u16a(T) ==
    CASE M(T) = 2 -> SetTmp0(fetch(T), fetched(T))
      [] M(T) = 3 -> SetTmp1(fetch(T), fetched(T))
      [] M(T) = 4 -> Done(wr(T, Word(T.proc.tmp1, T.proc.tmp0), R(T).a))
      [] OTHER -> T

ld_au16(T) ==
    CASE M(T) = 2 -> SetTmp0(fetch(T), fetched(T))
      [] M(T) = 3 -> SetTmp1(fetch(T), fetched(T))
      [] M(T) = 4 ->
            LET addr == Word(T.proc.tmp1, T.proc.tmp0)
            IN  Done(Set(rd(T, addr), "a", rv(T, addr)))
      [] OTHER -> T

jr_d(T) ==
    CASE M(T) = 2 -> SetTmp0(fetch(T), fetched(T))
      [] M(T) = 3 -> Done(Set(T, "pc", wrapping_add16(R(T).pc, SignExtend(T.proc.tmp0))))
      [] OTHER -> T

jr_cond(T) ==
    CASE M(T) = 2 ->
            LET y  == Y(opcode_at(T, 1))
                T1 == reread(T, 1)
                T2 == IF y < 4 THEN Overflow(T1) ELSE T1
            IN  SetTmp1(SetTmp0(fetch(T2), wrapping_sub8(y, 4)), fetched(T2))
      [] M(T) = 3 ->
            IF T.proc.tmp0 > 3 THEN Panic(T)
            ELSE IF ~Cond(T, T.proc.tmp0) THEN Done(T) ELSE T
      [] M(T) = 5 -> Done(Set(T, "pc", wrapping_add16(R(T).pc, SignExtend(T.proc.tmp1))))
      [] OTHER -> T

jp_u16(T) ==
    CASE M(T) = 2 -> SetTmp0(fetch(T), fetched(T))
      [] M(T) = 3 -> SetTmp1(fetch(T), fetched(T))
      [] M(T) = 4 -> Done(SetRegs(T, set_pchi(set_pclo(R(T), T.proc.tmp0), T.proc.tmp1)))
      [] OTHER -> T

jp_hl(T) ==
    CASE M(T) = 1 -> Done(Set(T, "pc", hl(R(T))))
      [] OTHER -> T

di(T) ==
    CASE M(T) = 1 -> Done([T EXCEPT !.bus.cpu.ime = FALSE])
      [] OTHER -> T

\* A variant of ei that sets IME at once.
ei_immediate(T) ==
    CASE M(T) = 1 -> Done([T EXCEPT !.bus.cpu.ime = TRUE])
      [] OTHER -> T

ei(T) ==
    CASE M(T) = 1 -> Done([T EXCEPT !.bus.cpu.en_ime = <<TRUE, 0>>])
      [] OTHER -> T

\* The flag updates shared by INC (negative = FALSE) and DEC (negative = TRUE).
\* A variant of IncDecFlags that also clears Carry.
IncDecFlags_clears_carry(T, zer, negative, half) ==
    SetF(SetF(SetF(SetF(T, Zero, zer), Negative, negative), HalfCarry, half),
         Carry, FALSE)

IncDecFlags(T, zer, negative, half) ==
    SetF(SetF(SetF(T, Zero, zer), Negative, negative), HalfCarry, half)

inc_r(T) ==
    CASE M(T) = 1 ->
            LET y  == Y(opcode_at(T, 1))
                T1 == reread(T, 1)
            IN  IF y = 6 THEN T1
                ELSE LET r == alu_add(Reg(T1, y), 1)
                     IN  Done(IncDecFlags(Set(T1, RegName(y), r.result), r.zer, FALSE, r.half))
      [] M(T) = 2 ->
            LET r == alu_add(rv(T, hl(R(T))), 1)
            IN  SetTmp1(SetTmp0(rd(T, hl(R(T))), r.result), BoolToInt(r.half))
      [] M(T) = 3 ->
            Done(IncDecFlags(wr(T, hl(R(T)), T.proc.tmp0),
                             T.proc.tmp0 = 0, FALSE, T.proc.tmp1 # 0))
      [] OTHER -> T

dec_r(T) ==
    CASE M(T) = 1 ->
            LET y  == Y(opcode_at(T, 1))
                T1 == reread(T, 1)
            IN  IF y = 6 THEN T1
                ELSE LET r == alu_sub(Reg(T1, y), 1)
                     IN  Done(IncDecFlags(Set(T1, RegName(y), r.result),
                                          r.result = 0, TRUE, r.half))
      [] M(T) = 2 ->
            LET r == alu_sub(rv(T, hl(R(T))), 1)
            IN  SetTmp1(SetTmp0(rd(T, hl(R(T))), r.result), BoolToInt(r.half))
      [] M(T) = 3 ->
            Done(IncDecFlags(wr(T, hl(R(T)), T.proc.tmp0),
                             T.proc.tmp0 = 0, TRUE, T.proc.tmp1 # 0))
      [] OTHER -> T

\* rp[p]: the value of the pair, and the writes of its low and high bytes.
Rp(T, p) ==
    CASE p = 0 -> bc(R(T)) [] p = 1 -> de(R(T)) [] p = 2 -> hl(R(T)) [] p = 3 -> R(T).sp

SetRpLo(T, p, v) ==
    CASE p = 0 -> Set(T, "c", v) [] p = 1 -> Set(T, "e", v) [] p = 2 -> Set(T, "l", v)
      [] p = 3 -> SetRegs(T, set_splo(R(T), v))

SetRpHi(T, p, v) ==
    CASE p = 0 -> Set(T, "b", v) [] p = 1 -> Set(T, "d", v) [] p = 2 -> Set(T, "h", v)
      [] p = 3 -> SetRegs(T, set_sphi(R(T), v))

inc_rp(T) ==
    CASE M(T) = 1 ->
            LET p      == P(opcode_at(T, 1))
                T1     == reread(T, 1)
                result == wrapping_add16(Rp(T1, p), 1)
            IN  SetRpLo(SetTmp1(SetTmp0(T1, p), Hi(result)), p, Lo(result))
      [] M(T) = 2 -> Done(SetRpHi(T, T.proc.tmp0, T.proc.tmp1))
      [] OTHER -> T

\* M-cycle 2 selects the pair by `proc.tmp0 >> 4`.
dec_rp(T) ==
    CASE M(T) = 1 ->
            LET p      == P(opcode_at(T, 1))
                T1     == reread(T, 1)
                result == wrapping_sub16(Rp(T1, p), 1)
            IN  SetRpLo(SetTmp1(SetTmp0(T1, p), Hi(result)), p, Lo(result))
      [] M(T) = 2 -> Done(SetRpHi(T, Shr8(T.proc.tmp0, 4), T.proc.tmp1))
      [] OTHER -> T

\* The four flag updates of ADD / SUB / CP from an ALU result.
AluFlags(T, r, negative) ==
    SetF(SetF(SetF(SetF(T, Zero, r.zer), Negative, negative), HalfCarry, r.half),
         Carry, r.carry)

\* `cpu.regs.f.bits = 0` followed by the set of Zero from A.
LogicFlags(T) == SetF(Set(T, "f", 0), Zero, R(T).a = 0)

add_ar(T) ==
    CASE M(T) = 1 ->
            LET z  == Z(opcode_at(T, 1))
                T1 == reread(T, 1)
            IN  IF z = 6 THEN T1
                ELSE LET r == alu_add(R(T1).a, AluOperand(T1, z))
                     IN  Done(AluFlags(Set(T1, "a", r.result), r, FALSE))
      [] M(T) = 2 ->
            LET r == alu_add(R(T).a, rv(T, hl(R(T))))
            IN  Done(AluFlags(Set(rd(T, hl(R(T))), "a", r.result), r, FALSE))
      [] OTHER -> T

sub_ar(T) ==
    CASE M(T) = 1 ->
            LET z  == Z(opcode_at(T, 1))
                T1 == reread(T, 1)
            IN  IF z = 6 THEN T1
                ELSE LET r == alu_sub(R(T1).a, AluOperand(T1, z))
                     IN  Done(AluFlags(Set(T1, "a", r.result), r, TRUE))
      [] M(T) = 2 ->
            LET r == alu_sub(R(T).a, rv(T, hl(R(T))))
            IN  Done(AluFlags(Set(rd(T, hl(R(T))), "a", r.result), r, TRUE))
      [] OTHER -> T

\* M-cycle 1 (register operand) leaves HalfCarry clear; M-cycle 2 sets it.
and_ar(T) ==
    CASE M(T) = 1 ->
            LET z  == Z(opcode_at(T, 1))
                T1 == reread(T, 1)
            IN  IF z = 6 THEN T1
                ELSE Done(LogicFlags(Set(T1, "a", And8(R(T1).a, AluOperand(T1, z)))))
      [] M(T) = 2 ->
            LET T1 == Set(rd(T, hl(R(T))), "a", And8(R(T).a, rv(T, hl(R(T)))))
            IN  Done(SetF(LogicFlags(T1), HalfCarry, TRUE))
      [] OTHER -> T

xor_ar(T) ==
    CASE M(T) = 1 ->
            LET z  == Z(opcode_at(T, 1))
                T1 == reread(T, 1)
            IN  IF z = 6 THEN T1
                ELSE Done(LogicFlags(Set(T1, "a", Xor8(R(T1).a, AluOperand(T1, z)))))
      [] M(T) = 2 ->
            Done(LogicFlags(Set(rd(T, hl(R(T))), "a", Xor8(R(T).a, rv(T, hl(R(T)))))))
      [] OTHER -> T

or_ar(T) ==
    CASE M(T) = 1 ->
            LET z  == Z(opcode_at(T, 1))
                T1 == reread(T, 1)
            IN  IF z = 6 THEN T1
                ELSE Done(LogicFlags(Set(T1, "a", Or8(R(T1).a, AluOperand(T1, z)))))
      [] M(T) = 2 ->
            Done(LogicFlags(Set(rd(T, hl(R(T))), "a", Or8(R(T).a, rv(T, hl(R(T)))))))
      [] OTHER -> T

cp_ar(T) ==
    CASE M(T) = 1 ->
            LET z  == Z(opcode_at(T, 1))
                T1 == reread(T, 1)
            IN  IF z = 6 THEN T1
                ELSE Done(AluFlags(T1, alu_sub(R(T1).a, AluOperand(T1, z)), TRUE))
      [] M(T) = 2 ->
            Done(AluFlags(rd(T, hl(R(T))), alu_sub(R(T).a, rv(T, hl(R(T)))), TRUE))
      [] OTHER -> T

ld_ru8(T) ==
    CASE M(T) = 2 ->
            LET y  == Y(opcode_at(T, 1))
                T1 == reread(T, 1)
                T2 == SetTmp0(fetch(T1), fetched(T1))
            IN  IF y = 6 THEN T2 ELSE Done(Set(T2, RegName(y), T2.proc.tmp0))
      [] M(T) = 3 -> Done(wr(T, hl(R(T)), T.proc.tmp0))
      [] OTHER -> T

ld_rr(T) ==
    CASE M(T) = 1 ->
            LET y  == Y(opcode_at(T, 1))
                z  == Z(opcode_at(T, 1))
                T1 == SetTmp1(SetTmp0(reread(T, 1), y), z)
            IN  IF z = 6 \/ y = 6 THEN T1 ELSE Done(Set(T1, RegName(y), Reg(T1, z)))
      [] M(T) = 2 ->
            LET y == T.proc.tmp0
                z == T.proc.tmp1
            IN  IF y = 6
                THEN IF z = 6 THEN Panic(T) ELSE Done(wr(T, hl(R(T)), Reg(T, z)))
                ELSE IF z = 6
                     THEN Done(Set(rd(T, hl(R(T))), RegName(y), rv(T, hl(R(T)))))
                     ELSE Panic(T)
      [] OTHER -> T

rlca(T) ==
    CASE M(T) = 1 ->
            LET T1 == SetF(Set(T, "f", 0), Carry, And8(R(T).a, \h80) # 0)
            IN  Done(Set(T1, "a", rotate_left(R(T).a)))
      [] OTHER -> T

rrca(T) ==
    CASE M(T) = 1 ->
            LET T1 == SetF(Set(T, "f", 0), Carry, And8(R(T).a, \h01) # 0)
            IN  Done(Set(T1, "a", rotate_right(R(T).a)))
      [] OTHER -> T

rla(T) ==
    CASE M(T) = 1 ->
            LET carry == And8(R(T).a, \h80) # 0
                a     == Or8(And8(rotate_left(R(T).a), \hFE),
                             BoolToInt(contains(R(T).f, Carry)))
            IN  Done(SetF(Set(Set(T, "a", a), "f", 0), Carry, carry))
      [] OTHER -> T

rra(T) ==
    CASE M(T) = 1 ->
            LET carry == And8(R(T).a, \h01) # 0
                a     == Or8(And8(rotate_right(R(T).a), \h7F),
                             Shl8(BoolToInt(contains(R(T).f, Carry)), 7))
            IN  Done(SetF(Set(Set(T, "a", a), "f", 0), Carry, carry))
      [] OTHER -> T

\* DAA, CPL, SCF, CCF: todo!() in M-cycle 1.
daa(T) == IF M(T) = 1 THEN Panic(T) ELSE T

cpl(T) == IF M(T) = 1 THEN Panic(T) ELSE T

scf(T) == IF M(T) = 1 THEN Panic(T) ELSE T

ccf(T) == IF M(T) = 1 THEN Panic(T) ELSE T

add_au8(T) ==
    CASE M(T) = 2 ->
            LET r == alu_add(R(T).a, fetched(T))
            IN  Done(AluFlags(Set(fetch(T), "a", r.result), r, FALSE))
      [] OTHER -> T

adc_au8(T) ==
    CASE M(T) = 2 ->
            LET r == alu_adc(R(T).a, fetched(T), contains(R(T).f, Carry))
            IN  Done(AluFlags(Set(fetch(T), "a", r.result), r, FALSE))
      [] OTHER -> T

sub_au8(T) ==
    CASE M(T) = 2 ->
            LET r == alu_sub(R(T).a, fetched(T))
            IN  Done(AluFlags(Set(fetch(T), "a", r.result), r, TRUE))
      [] OTHER -> T

and_au8(T) ==
    CASE M(T) = 2 ->
            LET T1 == Set(fetch(T), "a", And8(R(T).a, fetched(T)))
            IN  Done(SetF(LogicFlags(T1), HalfCarry, TRUE))
      [] OTHER -> T

xor_au8(T) ==
    CASE M(T) = 2 -> Done(LogicFlags(Set(fetch(T), "a", Xor8(R(T).a, fetched(T)))))
      [] OTHER -> T

or_au8(T) ==
    CASE M(T) = 2 -> Done(LogicFlags(Set(fetch(T), "a", Or8(R(T).a, fetched(T)))))
      [] OTHER -> T

cp_au8(T) ==
    CASE M(T) = 2 -> Done(AluFlags(fetch(T), alu_sub(R(T).a, fetched(T)), TRUE))
      [] OTHER -> T

\* indirect[p]: (BC), (DE), (HL+), (HL-): the address, and the state after the
\* post-increment or post-decrement of HL.
IndirectAddr(T, p) == IF p = 0 THEN bc(R(T)) ELSE IF p = 1 THEN de(R(T)) ELSE hl(R(T))

IndirectStep(T, p) ==
    CASE p = 2 -> SetRegs(T, set_hl(R(T), wrapping_add16(hl(R(T)), 1)))
      [] p = 3 -> SetRegs(T, set_hl(R(T), wrapping_sub16(hl(R(T)), 1)))
      [] OTHER -> T

ld_toindirect(T) ==
    CASE M(T) = 1 -> SetTmp0(reread(T, 1), P(opcode_at(T, 1)))
      [] M(T) = 2 ->
            IF T.proc.tmp0 > 3 THEN Panic(T)
            ELSE Done(wr(IndirectStep(T, T.proc.tmp0), IndirectAddr(T, T.proc.tmp0), R(T).a))
      [] OTHER -> T

ld_fromindirect(T) ==
    CASE M(T) = 1 -> SetTmp0(reread(T, 1), P(opcode_at(T, 1)))
      [] M(T) = 2 ->
            IF T.proc.tmp0 > 3 THEN Panic(T)
            ELSE LET addr == IndirectAddr(T, T.proc.tmp0)
                     T1   == IndirectStep(T, T.proc.tmp0)
                 IN  Done(Set(rd(T1, addr), "a", rv(T1, addr)))
      [] OTHER -> T

\* rp2[p]: BC, DE, HL, AF: the names of the low and high registers.
Rp2Lo(p) == CASE p = 0 -> "c" [] p = 1 -> "e" [] p = 2 -> "l" [] p = 3 -> "f"

Rp2Hi(p) == CASE p = 0 -> "b" [] p = 1 -> "d" [] p = 2 -> "h" [] p = 3 -> "a"

\* A variant of PopLow that stores the popped byte in F as it is.
PopLow_unmasked(p, byte) == byte

\* The byte POP stores in the low register: F keeps only its high nibble.
PopLow(p, byte) == IF p = 3 THEN And8(byte, \hF0) ELSE byte

\* A variant of PushLow that writes the high register a second time.
PushLow_high(T, p) == R(T)[Rp2Hi(p)]

\* The byte PUSH writes for the low register.
PushLow(T, p) == IF p = 3 THEN And8(R(T).f, \hF0) ELSE R(T)[Rp2Lo(p)]

pop(T) ==
    CASE M(T) = 1 -> SetTmp0(reread(T, 1), P(opcode_at(T, 1)))
      [] M(T) = 2 ->
            IF T.proc.tmp0 > 3 THEN Panic(T)
            ELSE Set(stack_pop(T), Rp2Lo(T.proc.tmp0), PopLow(T.proc.tmp0, popped(T)))
      [] M(T) = 3 ->
            IF T.proc.tmp0 > 3 THEN Panic(T)
            ELSE Done(Set(stack_pop(T), Rp2Hi(T.proc.tmp0), popped(T)))
      [] OTHER -> T

push(T) ==
    CASE M(T) = 1 -> SetTmp0(reread(T, 1), P(opcode_at(T, 1)))
      [] M(T) = 3 ->
            IF T.proc.tmp0 > 3 THEN Panic(T)
            ELSE stack_push(T, R(T)[Rp2Hi(T.proc.tmp0)])
      [] M(T) = 4 ->
            IF T.proc.tmp0 > 3 THEN Panic(T)
            ELSE Done(stack_push(T, PushLow(T, T.proc.tmp0)))
      [] OTHER -> T

\* M-cycle 6 of CALL: push PC-low, then load PC from the fetched bytes.
\* A variant of CallJump that pushes the high byte of PC a second time.
CallJump_high(T) ==
    LET T1 == stack_push(T, pchi(R(T)))
    IN  Done(SetRegs(T1, set_pchi(set_pclo(R(T1), T.proc.tmp0), T.proc.tmp1)))

CallJump(T) ==
    LET T1 == stack_push(T, pclo(R(T)))
    IN  Done(SetRegs(T1, set_pchi(set_pclo(R(T1), T.proc.tmp0), T.proc.tmp1)))

call_cond(T) ==
    CASE M(T) = 2 -> SetTmp0(fetch(T), fetched(T))
      [] M(T) = 3 ->
            LET T1 == SetTmp1(fetch(T), fetched(T))
                y  == Y(opcode_at(T1, 3))
                T2 == reread(T1, 3)
            IN  IF y > 3 THEN Panic(T2)
                ELSE IF ~Cond(T2, y) THEN Done(T2) ELSE T2
      [] M(T) = 5 -> stack_push(T, pchi(R(T)))
      [] M(T) = 6 -> CallJump(T)
      [] OTHER -> T

call_u16(T) ==
    CASE M(T) = 2 -> SetTmp0(fetch(T), fetched(T))
      [] M(T) = 3 -> SetTmp1(fetch(T), fetched(T))
      [] M(T) = 5 -> stack_push(T, pchi(R(T)))
      [] M(T) = 6 -> CallJump(T)
      [] OTHER -> T

\* The last M-cycle of RET: load PC from the popped bytes.
RetJump(T) == Done(SetRegs(T, set_pchi(set_pclo(R(T), T.proc.tmp0), T.proc.tmp1)))

ret(T) ==
    CASE M(T) = 2 -> SetTmp0(stack_pop(T), popped(T))
      [] M(T) = 3 -> SetTmp1(stack_pop(T), popped(T))
      [] M(T) = 4 -> RetJump(T)
      [] OTHER -> T

ret_cond(T) ==
    CASE M(T) = 2 ->
            LET y  == Y(opcode_at(T, 1))
                T1 == reread(T, 1)
            IN  IF y > 3 THEN Panic(T1)
                ELSE IF ~Cond(T1, y) THEN Done(T1) ELSE T1
      [] M(T) = 3 -> SetTmp0(stack_pop(T), popped(T))
      [] M(T) = 4 -> SetTmp1(stack_pop(T), popped(T))
      [] M(T) = 5 -> RetJump(T)
      [] OTHER -> T

add_hlrp(T) ==
    CASE M(T) = 1 ->
            LET p  == P(opcode_at(T, 1))
                T1 == reread(T, 1)
                r  == alu_add_u16(hl(R(T1)), Rp(T1, p))
                T2 == Set(SetTmp0(T1, Hi(r.result)), "l", Lo(r.result))
            IN  SetF(SetF(SetF(T2, Negative, FALSE), HalfCarry, r.half), Carry, r.carry)
      [] M(T) = 2 -> Done(Set(T, "h", T.proc.tmp0))
      [] OTHER -> T

ld_sphl(T) ==
    CASE M(T) = 2 -> Done(Set(T, "sp", hl(R(T))))
      [] OTHER -> T

ld_rpu16(T) ==
    CASE M(T) = 1 -> SetTmp0(reread(T, 1), P(opcode_at(T, 1)))
      [] M(T) = 2 ->
            IF T.proc.tmp0 > 3 THEN Panic(T)
            ELSE SetRpLo(fetch(T), T.proc.tmp0, fetched(T))
      [] M(T) = 3 ->
            IF T.proc.tmp0 > 3 THEN Panic(T)
            ELSE Done(SetRpHi(fetch(T), T.proc.tmp0, fetched(T)))
      [] OTHER -> T

ld_toio_c(T) ==
    CASE M(T) = 2 -> Done(wr(T, \hFF00 + R(T).c, R(T).a))
      [] OTHER -> T

ld_fromio_c(T) ==
    CASE M(T) = 2 -> Done(Set(rd(T, \hFF00 + R(T).c), "a", rv(T, \hFF00 + R(T).c)))
      [] OTHER -> T

ld_toio_u8(T) ==
    CASE M(T) = 2 -> SetTmp0(fetch(T), fetched(T))
      [] M(T) = 3 -> Done(wr(T, \hFF00 + T.proc.tmp0, R(T).a))
      [] OTHER -> T

ld_fromio_u8(T) ==
    CASE M(T) = 3 ->
            Done(Set(rd(T, \hFF00 + T.proc.tmp0), "a", rv(T, \hFF00 + T.proc.tmp0)))
      [] M(T) = 2 -> SetTmp0(fetch(T), fetched(T))
      [] OTHER -> T

----------------------------------------------------------------------------
(* CB-prefixed instructions.  The decode call fetches both bytes, so the   *)
(* opcode re-read at PC - 1 in M-cycle 2 is the byte after the prefix.     *)

\* rot[y]: RLC, RRC, RL, RR, SLA, SRA, SWAP, SRL: the result byte.
\* Variant: RL shifts in a zero instead of the carry flag.
RotResult_rl_drops_carry(y, v, carry) ==
    CASE y = 0 -> rotate_left(v)
      [] y = 1 -> rotate_right(v)
      [] y = 2 -> Shl8(v, 1)
      [] y = 3 -> Or8(Shr8(v, 1), Shl8(carry, 7))
      [] y = 4 -> Shl8(v, 1)
      [] y = 5 -> Or8(Shr8(v, 1), And8(v, \h80))
      [] y = 6 -> Or8(Shr8(v, 4), And8(v, \hF0))
      [] y = 7 -> Shr8(v, 1)

RotResult(y, v, carry) ==
    CASE y = 0 -> rotate_left(v)
      [] y = 1 -> rotate_right(v)
      [] y = 2 -> Or8(Shl8(v, 1), carry)
      [] y = 3 -> Or8(Shr8(v, 1), Shl8(carry, 7))
      [] y = 4 -> Shl8(v, 1)
      [] y = 5 -> Or8(Shr8(v, 1), And8(v, \h80))
      [] y = 6 -> Or8(Shr8(v, 4), And8(v, \hF0))
      [] y = 7 -> Shr8(v, 1)

\* rot[y]: the value whose being non-zero becomes the Carry flag.
RotCarry(y, v, carry) ==
    CASE y \in {0, 2, 4} -> And8(v, \h80)
      [] y \in {1, 3, 5, 7} -> And8(v, \h01)
      [] y = 6 -> carry

RotFlags(T, y, v) ==
    LET carry == BoolToInt(contains(R(T).f, Carry))
    IN  SetF(SetF(Set(T, "f", 0), Zero, RotResult(y, v, carry) = 0),
             Carry, RotCarry(y, v, carry) # 0)

\* M-cycle 4 writes back `val`, the byte read in M-cycle 3.
rot(T) ==
    CASE M(T) = 2 ->
            LET y  == Y(opcode_at(T, 1))
                z  == Z(opcode_at(T, 1))
                T1 == SetTmp0(reread(T, 1), y)
                carry == BoolToInt(contains(R(T1).f, Carry))
            IN  IF z = 6 THEN T1
                ELSE Done(Set(RotFlags(T1, y, Reg(T1, z)), RegName(z),
                              RotResult(y, Reg(T1, z), carry)))
      [] M(T) = 3 -> SetTmp1(rd(T, hl(R(T))), rv(T, hl(R(T))))
      [] M(T) = 4 ->
            IF T.proc.tmp0 > 7 THEN Panic(T)
            ELSE Done(wr(RotFlags(T, T.proc.tmp0, T.proc.tmp1), hl(R(T)), T.proc.tmp1))
      [] OTHER -> T

\* Variant: BIT sets Zero when the tested bit is set.
BitFlags_zero_when_set(T, val) ==
    SetF(SetF(SetF(T, Zero, val # 0), Negative, FALSE), HalfCarry, TRUE)

BitFlags(T, val) == SetF(SetF(SetF(T, Zero, val = 0), Negative, FALSE), HalfCarry, TRUE)

bit(T) ==
    CASE M(T) = 2 ->
            LET y  == Y(opcode_at(T, 1))
                z  == Z(opcode_at(T, 1))
                T1 == SetTmp0(reread(T, 1), y)
            IN  IF z = 6 THEN T1
                ELSE Done(BitFlags(T1, And8(Reg(T1, z), Shl8(1, y))))
      [] M(T) = 3 ->
            Done(BitFlags(rd(T, hl(R(T))), And8(rv(T, hl(R(T))), Shl8(1, T.proc.tmp0))))
      [] OTHER -> T

res(T) ==
    CASE M(T) = 2 ->
            LET y  == Y(opcode_at(T, 1))
                z  == Z(opcode_at(T, 1))
                T1 == SetTmp0(reread(T, 1), y)
            IN  IF z = 6 THEN T1
                ELSE Done(Set(T1, RegName(z), And8(Reg(T1, z), Not8(Shl8(1, y)))))
      [] M(T) = 3 -> SetTmp1(rd(T, hl(R(T))), rv(T, hl(R(T))))
      [] M(T) = 4 -> Done(wr(T, hl(R(T)), And8(T.proc.tmp1, Not8(Shl8(1, T.proc.tmp0)))))
      [] OTHER -> T

set(T) ==
    CASE M(T) = 2 ->
            LET y  == Y(opcode_at(T, 1))
                z  == Z(opcode_at(T, 1))
                T1 == SetTmp0(reread(T, 1), y)
            IN  IF z = 6 THEN T1
                ELSE Done(Set(T1, RegName(z), Or8(Reg(T1, z), Shl8(1, y))))
      [] M(T) = 3 -> SetTmp1(rd(T, hl(R(T))), rv(T, hl(R(T))))
      [] M(T) = 4 -> Done(wr(T, hl(R(T)), Or8(T.proc.tmp1, Shl8(1, T.proc.tmp0))))
      [] OTHER -> T

----------------------------------------------------------------------------
(* InstructionProcedure and the decode of Cpu::tcycle.                     *)

InstructionProcedure_new(func) ==
    [done |-> FALSE, func |-> func, mcycle |-> 1, tmp0 |-> 0, tmp1 |-> 0]

\* The decode of a CB-prefixed opcode (the byte after 0xCB).
\* A variant of DecodeCB that sends the BIT group to res.
DecodeCB_bit_as_res(opcode) ==
    CASE X(opcode) = 0 -> "rot"
      [] X(opcode) = 1 -> "res"
      [] X(opcode) = 2 -> "res"
      [] X(opcode) = 3 -> "set"

DecodeCB(opcode) ==
    CASE X(opcode) = 0 -> "rot"
      [] X(opcode) = 1 -> "bit"
      [] X(opcode) = 2 -> "res"
      [] X(opcode) = 3 -> "set"

\* The decode of a main opcode other than 0xCB: the name of the step function, or
\* "panic" where the match ends in todo!(), unimplemented!() or panic!().
Decode(opcode) ==
    LET x == X(opcode)
        y == Y(opcode)
        z == Z(opcode)
        p == y \div 2
        q == y % 2
    IN  CASE opcode \in {\hDD, \hFD, \hED} -> "panic"
          [] opcode \notin {\hDD, \hFD, \hED} /\ x = 0 ->
               (CASE z = 0 -> (CASE y = 0 -> "nop" [] y = 1 -> "ld_u16sp" [] y = 2 -> "stop"
                                 [] y = 3 -> "jr_d" [] y >= 4 -> "jr_cond")
                  [] z = 1 -> IF q = 0 THEN "ld_rpu16" ELSE "add_hlrp"
                  [] z = 2 -> IF q = 0 THEN "ld_toindirect" ELSE "ld_fromindirect"
                  [] z = 3 -> IF q = 0 THEN "inc_rp" ELSE "dec_rp"
                  [] z = 4 -> "inc_r"
                  [] z = 5 -> "dec_r"
                  [] z = 6 -> "ld_ru8"
                  [] z = 7 -> (CASE y = 0 -> "rlca" [] y = 1 -> "rrca" [] y = 2 -> "rla"
                                 [] y = 3 -> "rra" [] y = 4 -> "daa" [] y = 5 -> "cpl"
                                 [] y = 6 -> "scf" [] y = 7 -> "ccf"))
          [] x = 1 -> IF y = 6 /\ z = 6 THEN "panic" ELSE "ld_rr"
          [] x = 2 ->
               (CASE y = 0 -> "add_ar" [] y = 2 -> "sub_ar" [] y = 4 -> "and_ar"
                  [] y = 5 -> "xor_ar" [] y = 6 -> "or_ar" [] y = 7 -> "cp_ar"
                  [] OTHER -> "panic")
          [] opcode \notin {\hDD, \hFD, \hED} /\ x = 3 ->
               (CASE z = 0 -> (CASE y <= 3 -> "ret_cond" [] y = 4 -> "ld_toio_u8"
                                 [] y = 6 -> "ld_fromio_u8" [] OTHER -> "panic")
                  [] z = 1 -> IF q = 0 THEN "pop"
                              ELSE (CASE p = 0 -> "ret" [] p = 1 -> "panic"
                                      [] p = 2 -> "jp_hl" [] p = 3 -> "ld_sphl")
                  [] z = 2 -> (CASE y = 4 -> "ld_toio_c" [] y = 5 -> "ld_u16a"
                                 [] y = 6 -> "ld_fromio_c" [] y = 7 -> "ld_au16"
                                 [] OTHER -> "panic")
                  [] z = 3 -> (CASE y = 0 -> "jp_u16" [] y = 6 -> "di" [] y = 7 -> "ei"
                                 [] OTHER -> "panic")
                  [] z = 4 -> IF y <= 3 THEN "call_cond" ELSE "panic"
                  [] z = 5 -> IF q = 0 THEN "push"
                              ELSE IF p = 0 THEN "call_u16" ELSE "panic"
                  [] z = 6 -> (CASE y = 0 -> "add_au8" [] y = 1 -> "adc_au8"
                                 [] y = 2 -> "sub_au8" [] y = 4 -> "and_au8"
                                 [] y = 5 -> "xor_au8" [] y = 6 -> "or_au8"
                                 [] y = 7 -> "cp_au8" [] OTHER -> "panic")
                  [] z = 7 -> "panic")

\* (self.func)(self, cpu, bus): the call through the stored function pointer.
Call(func, T) ==
    CASE func = "nop" -> nop(T) [] func = "stop" -> stop(T)
      [] func = "ld_u16sp" -> ld_u16sp(T) [] func = "ld_u16a" -> ld_u16a(T)
      [] func = "ld_au16" -> ld_au16(T) [] func = "jr_d" -> jr_d(T)
      [] func = "jr_cond" -> jr_cond(T) [] func = "jp_u16" -> jp_u16(T)
      [] func = "jp_hl" -> jp_hl(T) [] func = "di" -> di(T) [] func = "ei" -> ei(T)
      [] func = "inc_r" -> inc_r(T) [] func = "dec_r" -> dec_r(T)
      [] func = "inc_rp" -> inc_rp(T) [] func = "dec_rp" -> dec_rp(T)
      [] func = "add_ar" -> add_ar(T) [] func = "sub_ar" -> sub_ar(T)
      [] func = "and_ar" -> and_ar(T) [] func = "xor_ar" -> xor_ar(T)
      [] func = "or_ar" -> or_ar(T) [] func = "cp_ar" -> cp_ar(T)
      [] func = "ld_ru8" -> ld_ru8(T) [] func = "ld_rr" -> ld_rr(T)
      [] func = "rlca" -> rlca(T) [] func = "rrca" -> rrca(T)
      [] func = "rla" -> rla(T) [] func = "rra" -> rra(T)
      [] func = "daa" -> daa(T) [] func = "cpl" -> cpl(T)
      [] func = "scf" -> scf(T) [] func = "ccf" -> ccf(T)
      [] func = "add_au8" -> add_au8(T) [] func = "adc_au8" -> adc_au8(T)
      [] func = "sub_au8" -> sub_au8(T) [] func = "and_au8" -> and_au8(T)
      [] func = "xor_au8" -> xor_au8(T) [] func = "or_au8" -> or_au8(T)
      [] func = "cp_au8" -> cp_au8(T)
      [] func = "ld_toindirect" -> ld_toindirect(T)
      [] func = "ld_fromindirect" -> ld_fromindirect(T)
      [] func = "pop" -> pop(T) [] func = "push" -> push(T)
      [] func = "call_cond" -> call_cond(T) [] func = "call_u16" -> call_u16(T)
      [] func = "ret" -> ret(T) [] func = "ret_cond" -> ret_cond(T)
      [] func = "add_hlrp" -> add_hlrp(T) [] func = "ld_sphl" -> ld_sphl(T)
      [] func = "ld_rpu16" -> ld_rpu16(T)
      [] func = "ld_toio_c" -> ld_toio_c(T) [] func = "ld_fromio_c" -> ld_fromio_c(T)
      [] func = "ld_toio_u8" -> ld_toio_u8(T) [] func = "ld_fromio_u8" -> ld_fromio_u8(T)
      [] func = "rot" -> rot(T) [] func = "bit" -> bit(T)
      [] func = "res" -> res(T) [] func = "set" -> set(T)

\* InstructionProcedure::step: call the function, then mcycle += 1.
step(T) == [Call(T.proc.func, T) EXCEPT !.proc.mcycle = @ + 1]

----------------------------------------------------------------------------
(* Cpu::tcycle.                                                            *)

\* The state a call starts from, in a build with (oc) or without overflow checks.
Start(oc) ==
    [bus |-> bus, proc |-> InstructionProcedure_new("nop"), panicked |-> FALSE,
     oc |-> oc, ovf |-> FALSE, log |-> <<>>]

\* `self.regs.pc + k` in the arguments of the debug! line, with u16 overflow.
CheckPcPlus(T, k) == IF R(T).pc + k > \hFFFF THEN Overflow(T) ELSE T

\* The debug! line at the head of a call with tcount = 0: where the logger
\* passes Debug records its arguments are evaluated, which reads the four bytes
\* at PC, PC + 1, PC + 2 and PC + 3 in that order; otherwise they are not.
DebugLine(T) ==
    LET pc == R(T).pc
        T1 == rd(T, pc)
        T2 == rd(CheckPcPlus(T1, 1), wrapping_add16(pc, 1))
        T3 == rd(CheckPcPlus(T2, 2), wrapping_add16(pc, 2))
        T4 == rd(CheckPcPlus(T3, 3), wrapping_add16(pc, 3))
    IN  IF level = "Debug" THEN T4 ELSE T

\* A variant of AdvanceLatch that leaves the counter at 2 when it fires.
AdvanceLatch_keeps_count(T) ==
    LET en == T.bus.cpu.en_ime
    IN  IF ~en[1] THEN T
        ELSE IF en[2] + 1 = 2
             THEN [T EXCEPT !.bus.cpu.en_ime = <<FALSE, 2>>, !.bus.cpu.ime = TRUE]
             ELSE [T EXCEPT !.bus.cpu.en_ime = <<TRUE, en[2] + 1>>]

\* The IME-enable latch, advanced when no procedure is in flight.
AdvanceLatch(T) ==
    LET en == T.bus.cpu.en_ime
    IN  IF ~en[1] THEN T
        ELSE IF en[2] + 1 = 2
             THEN [T EXCEPT !.bus.cpu.en_ime = <<FALSE, 0>>, !.bus.cpu.ime = TRUE]
             ELSE [T EXCEPT !.bus.cpu.en_ime = <<TRUE, en[2] + 1>>]

Install(T, func) ==
    IF func = "panic" THEN Panic(T)
    ELSE [T EXCEPT !.bus.cpu.procedure = Some(InstructionProcedure_new(func))]

\* Fetch and decode: installs the procedure of the opcode at PC.
FetchDecode(T) ==
    LET opcode == fetched(T)
        T1     == fetch(T)
    IN  IF opcode = \hCB
        THEN Install(fetch(T1), DecodeCB(fetched(T1)))
        ELSE Install(T1, Decode(opcode))

\* `let mut proc = self.procedure.unwrap()`.
LoadProc(T) == [T EXCEPT !.proc = unwrap(T.bus.cpu.procedure)]

\* After the step: the procedure is retired if done, stored back otherwise.
Retire(T) ==
    IF T.proc.done
    THEN [T EXCEPT !.bus.cpu.procedure = None, !.bus.cpu.instr_count = @ + 1]
    ELSE [T EXCEPT !.bus.cpu.procedure = Some(T.proc)]

\* A variant of Tick that wraps the counter at 3.
Tick_three(T) == [T EXCEPT !.bus.cpu.tcount = IF @ + 1 = 3 THEN 0 ELSE @ + 1]

\* `self.tcount += 1; if self.tcount == 4 { self.tcount = 0 }`.
Tick(T) == [T EXCEPT !.bus.cpu.tcount = IF @ + 1 = 4 THEN 0 ELSE @ + 1]

\* The record kept of an instruction when it is decoded: where it was fetched,
\* its opcode bytes, the registers and IME before the call (regs0, ime0), IME and
\* the latch once the latch has been advanced (ime, en_ime), and the number of
\* tcycle calls since (n).
InstrRecord(S, T0) ==
    LET opcode == fetched(T0)
    IN  [pc0 |-> R(S).pc, op |-> opcode,
         cb |-> IF opcode = \hCB THEN fetched(fetch(T0)) ELSE PANIC,
         regs0 |-> R(S), ime0 |-> S.bus.cpu.ime,
         ime |-> T0.bus.cpu.ime, en_ime |-> T0.bus.cpu.en_ime, n |-> 1]

Counted(seq) == [seq EXCEPT ![Len(seq)].n = @ + 1]

BuildName(oc) == IF oc THEN "on" ELSE "off"

\* The end of a call: a panic leaves the program's state as it was and ends the run.
Commit(T) ==
    /\ panicked' = T.panicked
    /\ bus' = IF T.panicked THEN bus ELSE T.bus
    /\ overflow_checks' = IF T.ovf THEN BuildName(T.oc) ELSE overflow_checks
    /\ bus_log' = T.log
    /\ UNCHANGED <<mode, calls, level>>

\* The build is one or the other for the whole run; while no overflow has
\* happened either is possible, and a call without overflow is the same in both.
BuildAllows(T) ==
    IF T.ovf
    THEN overflow_checks \in {"unset", BuildName(T.oc)}
    ELSE T.oc = (overflow_checks # "off")

\* A call with tcount != 0: only the T-cycle counter moves.
tcycle_wait ==
    /\ ~panicked
    /\ bus.cpu.tcount # 0
    /\ Commit(Tick(Start(TRUE)))
    /\ instrs' = IF instrs = <<>> THEN instrs ELSE Counted(instrs)

\* A call with tcount = 0.  The debug! line comes first.  With no procedure in
\* flight the latch is then advanced and the opcode at PC fetched and decoded (MaxInstr times in a run, and up to
\* MaxRun times while PC is inside the loaded image or at 0xFFFE-0xFFFF); then the procedure in
\* flight takes one step and is retired or stored.
tcycle_run ==
    /\ ~panicked
    /\ bus.cpu.tcount = 0
    /\ (bus.cpu.procedure = None =>
          \/ bus.cpu.instr_count <= MaxInstr
          \/ /\ bus.cpu.instr_count <= MaxRun
             /\ bus.cpu.regs.pc < Len(bus.boot_rom) \/ bus.cpu.regs.pc >= \hFFFE)
    /\ \E oc \in BOOLEAN :
       \E TD \in {DebugLine(Start(oc))} :
       \E T0 \in {IF bus.cpu.procedure = None /\ ~TD.panicked THEN AdvanceLatch(TD)
                  ELSE TD} :
       \E T1 \in {IF bus.cpu.procedure = None THEN FetchDecode(T0) ELSE T0} :
       \E T2 \in {IF T1.panicked THEN T1 ELSE step(LoadProc(T1))} :
       \E T3 \in {Tick(Retire(T2))} :
          /\ BuildAllows(T3)
          /\ Commit(T3)
          /\ instrs' = IF T3.panicked THEN instrs
                       ELSE IF bus.cpu.procedure = None
                            THEN Append(instrs, InstrRecord(Start(oc), T0))
                            ELSE Counted(instrs)

----------------------------------------------------------------------------
(* The programs run: the images main.rs loads into bus.boot_rom before the *)
(* first cycle.  An image is given by its leading bytes; the rest of the   *)
(* 256-byte array keeps the zeros of Bus::new.                             *)

\* Operand bytes following an opcode: an address in work RAM, one in the boot
\* ROM window, and one in high RAM (as displacements: 0, +5, -2).
Operands == {<<\h00, \hC0>>, <<\h05, \h00>>, <<\hFE, \hFF>>}

\* Every opcode on its own, CB-prefixed ones included.
SinglePrograms ==
    {<<op>> \o nn : op \in (0..255) \ {\hCB}, nn \in Operands}
        \cup {<<\hCB, op2>> : op2 \in 0..255}

\* LD rp,nn / LD SP,nn followed by a PUSH and a POP.
StackValues == {<<\h00, \hC0>>, <<\hFF, \hD0>>, <<\h5A, \hFF>>, <<\h00, \h00>>}

StackPrograms ==
    {<<ld>> \o nn \o <<pu, po>> :
        ld \in {\h01, \h11, \h21, \h31}, nn \in StackValues,
        pu \in {\hC5, \hD5, \hE5, \hF5}, po \in {\hC1, \hD1, \hE1, \hF1}}

\* EI, DI and NOP in every order, and EI before instructions of several M-cycles.
ImePrograms ==
    {<<a, b, c, d>> : a \in {\hFB, \hF3}, b \in {\hFB, \hF3, \h00},
                      c \in {\hFB, \hF3, \h00}, d \in {\hFB, \hF3, \h00}}
        \cup {<<\hFB>> \o tail :
                tail \in {<<\h01, \h34, \h12>>, <<\hCD, \h05, \h00>>, <<\hC5>>,
                          <<\hCB, \h11>>, <<\h20, \h00>>, <<\h28, \h00>>,
                          <<\hC9>>, <<\hF3, \hFB, \h00>>}}

\* LD SP,nn followed by CALL nn: stacks in work RAM, in high RAM, straddling
\* the end of the cartridge area, and wrapping below 0x0000.
CallStacks == {<<\h00, \hD0>>, <<\h90, \hFF>>, <<\h01, \hC0>>, <<\h00, \h00>>}

CallPrograms == {<<\h31>> \o sp \o <<\hCD>> \o nn : sp \in CallStacks, nn \in Operands}

\* LD BC,0xdd18; LD SP,0x0000; PUSH BC; JP 0xFFFE: leaves JR d at 0xFFFE-0xFFFF
\* and jumps to it.
WrapPrograms ==
    {<<\h01, \h18, d, \h31, \h00, \h00, \hC5, \hC3, \hFE, \hFF>> :
        d \in {\hFF, \h00, \h05, \h80}}

\* LD HL,0x00FF; INC L; INC L.
IncLPrograms == {<<\h21, \hFF, \h00, \h2C, \h2C>>}

Programs ==
    SinglePrograms \cup StackPrograms \cup ImePrograms \cup CallPrograms \cup WrapPrograms
        \cup IncLPrograms

\* Operand bytes of the arithmetic programs: the ends of the range and both
\* sides of each nibble and sign boundary.
AluBytes == {\h00, \h01, \h0E, \h0F, \h10, \h11, \h7F, \h80, \hF0, \hFF}

\* LD A,a followed by an operation on A and the immediate byte b.
AluImmediate ==
    {<<\h3E, a, op, b>> :
        a \in AluBytes, b \in AluBytes,
        op \in {\hC6, \hCE, \hD6, \hE6, \hEE, \hF6, \hFE}}

\* LD B,b; LD A,a followed by an operation on A and B, and LD A,a followed by
\* one on A and A.
AluRegister ==
    {<<\h06, b, \h3E, a, op>> :
        a \in AluBytes, b \in AluBytes,
        op \in {\h80, \h90, \hA0, \hA8, \hB0, \hB8}}
      \cup {<<\h3E, a, op>> :
               a \in AluBytes, op \in {\h87, \h97, \hA7, \hAF, \hB7, \hBF}}

\* LD HL,0x0010; LD A,a followed by an operation on A and (HL), the byte b
\* standing at 0x0010 of the image.
AluIndirect ==
    {<<\h21, \h10, \h00, \h3E, a, op, 0, 0, 0, 0, 0, 0, 0, 0, 0, 0, b>> :
        a \in AluBytes, b \in AluBytes,
        op \in {\h86, \h96, \hA6, \hAE, \hB6, \hBE}}

\* 16-bit operands, as <<low, high>>: the ends of the range and both sides of
\* the carries out of bits 7, 11 and 15.
AluWords == {<<\h00, \h00>>, <<\h01, \h00>>, <<\hFF, \h00>>, <<\hFF, \h0F>>,
             <<\h00, \h10>>, <<\h00, \h80>>, <<\h00, \hF0>>, <<\hFF, \hFF>>}

\* LD HL,v; LD rp,w; ADD HL,rp for BC, DE and SP, and LD HL,v; ADD HL,HL.
AluWide ==
    {<<\h21>> \o v \o <<ld>> \o w \o <<ld + 8>> :
        v \in AluWords, w \in AluWords, ld \in {\h01, \h11, \h31}}
      \cup {<<\h21>> \o v \o <<\h29>> : v \in AluWords}

\* LD r,v; INC r; DEC r for each 8-bit register and every byte v.
IncDecPrograms ==
    {<<8 * y + 6, v, 8 * y + 4, 8 * y + 5>> : y \in {0, 1, 2, 3, 4, 5, 7}, v \in 0..255}

\* LD rp,v followed by INC rp, and by DEC rp, for BC, DE, HL and SP.
IncDecWide ==
    {<<ld>> \o v \o <<ld + k>> :
        ld \in {\h01, \h11, \h21, \h31}, v \in AluWords, k \in {2, 10}}

\* LD r,v followed by each CB rotate or shift of r.
RotPrograms ==
    {<<8 * z + 6, v, \hCB, 8 * y + z>> :
        z \in {0, 1, 2, 3, 4, 5, 7}, v \in AluBytes, y \in 0..7}

\* k copies of the two-byte instruction CB op.
RECURSIVE Repeated(_, _)
Repeated(op, k) == IF k = 0 THEN <<>> ELSE <<\hCB, op>> \o Repeated(op, k - 1)

\* LD r,v followed by eight RLC r or RRC r, or by nine RL r or RR r.
RotRuns ==
    {<<8 * z + 6, v>> \o Repeated(8 * y + z, IF y < 2 THEN 8 ELSE 9) :
        z \in {0, 1, 2, 3, 4, 5, 7}, v \in AluBytes, y \in 0..3}

BitBytes == {\h00, \hA5, \hFF}

\* LD r,v followed by BIT, RES or SET b,r.
BitRegister ==
    {<<8 * z + 6, v, \hCB, 64 * x + 8 * b + z>> :
        z \in {0, 1, 2, 3, 4, 5, 7}, v \in BitBytes, x \in 1..3, b \in 0..7}

\* LD HL,nn; LD (HL),v followed by BIT, RES or SET b,(HL), nn in work RAM or
\* high RAM.
BitIndirect ==
    {<<\h21>> \o nn \o <<\h36, v, \hCB, 64 * x + 8 * b + 6>> :
        nn \in {<<\h00, \hC0>>, <<\hFF, \hDF>>, <<\h80, \hFF>>},
        v \in BitBytes, x \in 1..3, b \in 0..7}

\* LD HL,nn; LD (HL),v followed by a rotate or shift of (HL), nn in work RAM or
\* high RAM.
RotIndirect ==
    {<<\h21>> \o nn \o <<\h36, v, \hCB, 8 * y + 6>> :
        nn \in {<<\h00, \hC0>>, <<\h80, \hFF>>}, v \in {\h00, \h01, \h80, \hA5},
        y \in 0..7}

\* LD r,v followed by SWAP r twice.
SwapTwice ==
    {<<8 * z + 6, v, \hCB, \h30 + z, \hCB, \h30 + z>> :
        z \in {0, 1, 2, 3, 4, 5, 7}, v \in AluBytes}

AluPrograms ==
    AluImmediate \cup AluRegister \cup AluIndirect \cup AluWide \cup IncDecPrograms
        \cup IncDecWide \cup RotPrograms \cup RotRuns \cup BitRegister \cup BitIndirect
        \cup RotIndirect \cup SwapTwice

\* The arithmetic programs run in a mode that starts with Carry set and in one
\* that starts with it clear.
ProgramsOf(m) ==
    IF m \in {"Gameboy", "SuperGameboy"} THEN Programs \cup AluPrograms ELSE Programs

\* The record of the direct bus calls: how many, the last one with its result
\* (PANIC where it has none), the latch before it, whether it changed the bus,
\* and whether any call so far wrote 0xFF50.
NoCalls == [n |-> 0, op |-> "none", addr |-> PANIC, data |-> PANIC, ret |-> PANIC,
            latch |-> 0, changed |-> FALSE, latch_written |-> FALSE]

\* The levels main.rs can give the logger, by whether debug! records pass:
\* Error and Warn behave as Info here, Trace as Debug.
Levels == {"Info", "Debug"}

\* The logger set up, Gameboy::new(mode), then the boot ROM image copied in.
Init ==
    /\ mode \in Modes
    /\ level \in Levels
    /\ \E prog \in ProgramsOf(mode) : bus = [Bus_new(mode) EXCEPT !.boot_rom = prog]
    /\ panicked = FALSE
    /\ overflow_checks = "unset"
    /\ instrs = <<>>
    /\ bus_log = <<>>
    /\ calls = NoCalls

Next == tcycle_wait \/ tcycle_run

Spec == Init /\ [][Next]_vars

----------------------------------------------------------------------------
(* The bus driven directly: Bus::write and Bus::read called on a freshly   *)
(* built machine with the boot ROM and cartridge images loaded.            *)

BusAddrs == {\h0000, \h00FF, \h0100, \hC000, \hFF50, \hFF80}

BusData == {\h00, \h01, \hFF}

BootImages == {<<>>, <<\h31, \hFE, \hFF>>}

CartImages == {<<>>, <<\hC3, \h50, \h01>>}

BusInit ==
    /\ mode \in Modes
    /\ level \in Levels
    /\ \E boot \in BootImages, rom \in CartImages :
          bus = [Bus_new(mode) EXCEPT !.boot_rom = boot, !.cart.rom = rom]
    /\ panicked = FALSE
    /\ overflow_checks = "unset"
    /\ instrs = <<>>
    /\ bus_log = <<>>
    /\ calls = NoCalls

\* bus.write(addr, data)
write_call ==
    /\ ~panicked
    /\ calls.n < MaxBusOps
    /\ \E addr \in BusAddrs, data \in BusData :
          LET r == Bus_write(bus, addr, data)
          IN  /\ bus' = IF r.ok THEN r.v ELSE bus
              /\ panicked' = ~r.ok
              /\ calls' = [n |-> calls.n + 1, op |-> "write", addr |-> addr,
                           data |-> data, ret |-> PANIC,
                           latch |-> bus.boot_disabled,
                           changed |-> r.ok /\ r.v # bus,
                           latch_written |-> calls.latch_written \/ addr = \hFF50]
    /\ UNCHANGED <<mode, overflow_checks, instrs, bus_log, level>>

\* bus.read(addr)
read_call ==
    /\ ~panicked
    /\ calls.n < MaxBusOps
    /\ \E addr \in BusAddrs :
          LET v == Bus_read(bus, addr)
          IN  /\ panicked' = (v = PANIC)
              /\ calls' = [n |-> calls.n + 1, op |-> "read", addr |-> addr,
                           data |-> PANIC, ret |-> v,
                           latch |-> bus.boot_disabled, changed |-> FALSE,
                           latch_written |-> calls.latch_written]
    /\ UNCHANGED <<bus, mode, overflow_checks, instrs, bus_log, level>>

BusNext == write_call \/ read_call

BusSpec == BusInit /\ [][BusNext]_vars

----------------------------------------------------------------------------
(* The memory subsystem driven through the bus: Bus::write and Bus::read   *)
(* called on a freshly built machine, each run on one group of addresses.  *)

\* Bank select, bank 0 and the switchable bank.
WramAddrs == {\hFF70, \hC000, \hCFFF, \hD000, \hDFFF}

\* Bank select, the switchable bank and echo RAM.
EchoAddrs == {\hFF70, \hD000, \hE000, \hF000, \hFD02}

\* The undocumented registers.
UndocAddrs == {\hFF72, \hFF73, \hFF74, \hFF75}

MemData == {\h00, \h01, \h0A, \h5A, \hFF}

\* Work RAM is driven in the mode that has the bank register, the undocumented
\* registers in every mode.
\* Work RAM and high RAM cells.
RamAddrs == {\hC000, \hD000, \hDD02, \hFF80, \hFFFE}

MemAddrsOf(m) ==
    IF m = "GameboyColorGBC" THEN {WramAddrs, EchoAddrs, UndocAddrs, RamAddrs}
    ELSE {UndocAddrs}

\* The record of the calls: how many, the last one with its result (PANIC where
\* it has none), the bus before it, the last byte written to 0xFF70 (PANIC if
\* none), and the addresses the run draws from.
NoMemCalls(addrs) ==
    [n |-> 0, op |-> "none", addr |-> PANIC, data |-> PANIC, ret |-> PANIC,
     bus0 |-> Bus_new(mode), bank_written |-> PANIC, addrs |-> addrs]

MemInit ==
    /\ mode \in Modes
    /\ level \in Levels
    /\ bus = Bus_new(mode)
    /\ panicked = FALSE
    /\ overflow_checks = "unset"
    /\ instrs = <<>>
    /\ bus_log = <<>>
    /\ \E addrs \in MemAddrsOf(mode) : calls = NoMemCalls(addrs)

\* bus.write(addr, data)
mem_write_call ==
    /\ ~panicked
    /\ calls.n < MaxBusOps
    /\ \E addr \in calls.addrs, data \in MemData :
          LET r == Bus_write(bus, addr, data)
          IN  /\ bus' = IF r.ok THEN r.v ELSE bus
              /\ panicked' = ~r.ok
              /\ calls' = [calls EXCEPT !.n = @ + 1, !.op = "write", !.addr = addr,
                                        !.data = data, !.ret = PANIC, !.bus0 = bus,
                                        !.bank_written =
                                            IF r.ok /\ addr = \hFF70 THEN data ELSE @]
    /\ UNCHANGED <<mode, overflow_checks, instrs, bus_log, level>>

\* bus.read(addr)
mem_read_call ==
    /\ ~panicked
    /\ calls.n < MaxBusOps
    /\ \E addr \in calls.addrs :
          LET v == Bus_read(bus, addr)
          IN  /\ panicked' = (v = PANIC)
              /\ calls' = [calls EXCEPT !.n = @ + 1, !.op = "read", !.addr = addr,
                                        !.data = PANIC, !.ret = v, !.bus0 = bus]
    /\ UNCHANGED <<bus, mode, overflow_checks, instrs, bus_log, level>>

MemNext == mem_write_call \/ mem_read_call

MemSpec == MemInit /\ [][MemNext]_vars

----------------------------------------------------------------------------
(* Reference tables of the instruction set, as documented: the M-cycle     *)
(* counts and the lengths the properties below compare the code against.   *)

\* The instruction decoded last, and the one before it.
\* The transactions the CPU made in the last call apart from the four reads of
\* the debug! line, which come first where the logger passes Debug records.
StepLog ==
    IF level = "Debug" /\ Len(bus_log) >= 4
    THEN SubSeq(bus_log, 5, Len(bus_log))
    ELSE bus_log

Cur == instrs[Len(instrs)]

Prev == instrs[Len(instrs) - 1]

\* The last decoded instruction has retired.
Retired == instrs # <<>> /\ bus.cpu.procedure = None

\* The next tcycle call is the one that decodes the next instruction.
AtBoundary == Retired /\ bus.cpu.tcount = 0

\* cc[y] evaluated on a flags byte: NZ, Z, NC, C.
CcHolds(y, f) ==
    CASE y = 0 -> f \div 128 = 0
      [] y = 1 -> f \div 128 = 1
      [] y = 2 -> (f \div 16) % 2 = 0
      [] y = 3 -> (f \div 16) % 2 = 1

IsCondJR(op) == op \in {\h20, \h28, \h30, \h38}

IsCondCALL(op) == op \in {\hC4, \hCC, \hD4, \hDC}

IsCondRET(op) == op \in {\hC0, \hC8, \hD0, \hD8}

\* Whether a conditional instruction, decoded with flags f, is taken.
Taken(i) == CcHolds(Y(i.op) % 4, i.regs0.f)

\* The timing table of the unconditional, non-CB instructions (M-cycles); 0 for
\* an opcode the table does not list.
DocMCycles(op) ==
    LET x == X(op)
        y == Y(op)
        z == Z(op)
    IN  CASE op = \h00 -> 1
          [] op = \h08 -> 5
          [] op = \h18 -> 3
          [] op \in {\h34, \h35, \h36} -> 3
          [] x = 0 /\ z = 1 /\ y % 2 = 1 -> 2
          [] x = 0 /\ z = 3 -> 2
          [] x = 0 /\ z \in {4, 5} /\ y # 6 -> 1
          [] x = 0 /\ z = 6 /\ y # 6 -> 2
          [] x = 1 /\ y # 6 /\ z # 6 -> 1
          [] x = 1 /\ (y = 6 \/ z = 6) /\ op # \h76 -> 2
          [] x = 2 /\ z # 6 -> 1
          [] x = 2 /\ z = 6 -> 2
          [] x = 3 /\ z = 6 -> 2
          [] op \in {\hC1, \hD1, \hE1, \hF1} -> 3
          [] op \in {\hC5, \hD5, \hE5, \hF5} -> 4
          [] op \in {\hC3, \hC9, \hEA, \hFA} -> 4
          [] op = \hCD -> 6
          [] op = \hE9 -> 1
          [] op = \hF9 -> 2
          [] OTHER -> 0

\* C2: for each unconditional, non-CB instruction of the timing table, the number
\* of Cpu::tcycle calls from the call that decodes it up to the call that decodes
\* the next instruction is four times its documented M-cycle count.
C2_UnconditionalTiming ==
    (AtBoundary /\ DocMCycles(Cur.op) # 0) => Cur.n = 4 * DocMCycles(Cur.op)

\* LD (nn),SP, the longest entry but CALL, has run its 20 calls and written
\* work RAM.
C2_Witness ==
    /\ AtBoundary /\ Cur.op = \h08 /\ Cur.n = 20
    /\ bus.cpu.regs.pc = 3 /\ bus.mem.wram # EmptyCells

\* C3: a conditional JR takes 12 tcycle calls when its condition is true and 8
\* when it is false, from its decode to the decode of the next instruction.
C3_CondJRTiming ==
    (AtBoundary /\ IsCondJR(Cur.op)) => Cur.n = IF Taken(Cur) THEN 12 ELSE 8

\* C4: a conditional CALL takes 6 M-cycles taken and 3 not taken, a conditional
\* RET 5 taken and 2 not taken, for each condition and both flag values.
C4_CondCallRetTiming ==
    /\ (AtBoundary /\ IsCondCALL(Cur.op)) => Cur.n = IF Taken(Cur) THEN 24 ELSE 12
    /\ (AtBoundary /\ IsCondRET(Cur.op)) => Cur.n = IF Taken(Cur) THEN 20 ELSE 8

\* A taken CALL Z has run its 24 calls and left its return address on the stack.
C4_Witness ==
    /\ AtBoundary /\ Cur.op = \hCC /\ Taken(Cur) /\ Cur.n = 24
    /\ bus.cpu.regs.sp = wrapping_sub16(Cur.regs0.sp, 2)

\* C5: a CB-prefixed instruction on a register takes 2 M-cycles; on (HL), BIT
\* takes 3 and RES, SET and the rotate/shift group take 4.
C5_CBTiming ==
    (AtBoundary /\ Cur.op = \hCB) =>
        Cur.n = 4 * (IF Z(Cur.cb) # 6 THEN 2 ELSE IF X(Cur.cb) = 1 THEN 3 ELSE 4)

\* SET 7,(HL) has run its 16 calls and written work RAM.
C5_Witness ==
    /\ AtBoundary /\ Cur.op = \hCB /\ Cur.cb = \hFE /\ Cur.n = 16
    /\ Bus_read(bus, hl(bus.cpu.regs)) >= 128

\* C1: in every reachable state the low four bits of F are zero, POP AF of an
\* arbitrary byte included.
C1_FLowNibbleZero == bus.cpu.regs.f % 16 = 0

\* POP AF has retired after popping a byte whose low nibble is not zero.
C1_Witness ==
    /\ Retired /\ Cur.op = \hF1
    /\ Bus_read(bus, wrapping_sub16(bus.cpu.regs.sp, 2)) % 16 # 0
    /\ bus.cpu.regs.f = 16 * (Bus_read(bus, wrapping_sub16(bus.cpu.regs.sp, 2)) \div 16)

\* The documented length in bytes of an instruction.
IsaLength(op) ==
    LET x == X(op)
        y == Y(op)
        z == Z(op)
    IN  CASE op = \hCB -> 2
          [] op \in {\h08, \hEA, \hFA, \hC3, \hCD} -> 3
          [] x = 0 /\ z = 1 /\ y % 2 = 0 -> 3
          [] x = 3 /\ z \in {2, 4} /\ y <= 3 -> 3
          [] x = 0 /\ z = 0 /\ y >= 2 -> 2
          [] x = 0 /\ z = 6 -> 2
          [] x = 3 /\ z = 6 -> 2
          [] op \in {\hE0, \hF0, \hE8, \hF8} -> 2
          [] OTHER -> 1

\* Instructions that load PC: JP, JR, CALL, RET, RETI, RST, and the
\* conditional ones when their condition holds.
TransfersControl(i) ==
    \/ i.op \in {\h18, \hC3, \hC9, \hCD, \hD9, \hE9}
    \/ X(i.op) = 3 /\ Z(i.op) = 7
    \/ (IsCondJR(i.op) \/ IsCondCALL(i.op) \/ IsCondRET(i.op)) /\ Taken(i)
    \/ X(i.op) = 3 /\ Z(i.op) = 2 /\ Y(i.op) <= 3 /\ Taken(i)

\* C6: an implemented instruction that does not transfer control retires with
\* PC = the PC its opcode was fetched at + its length, provided PC does not wrap.
C6_PcAdvancesByLength ==
    (Retired /\ ~TransfersControl(Cur) /\ Cur.pc0 + IsaLength(Cur.op) <= \hFFFF)
        => bus.cpu.regs.pc = Cur.pc0 + IsaLength(Cur.op)

\* A PUSH fetched at address 3, after a three-byte load fetched at 0, has
\* retired with PC = 4.
C6_Witness ==
    /\ Retired /\ Len(instrs) > 1 /\ Cur.pc0 = 3
    /\ Cur.op \in {\hC5, \hD5, \hE5, \hF5} /\ bus.cpu.regs.pc = 4
    /\ Prev.op \in {\h01, \h11, \h21, \h31} /\ Prev.pc0 = 0

\* C7: once 0xFF50 has been written, with any value, every later read of an
\* address in 0x0000-0x00FF is routed to the cartridge and never returns the
\* boot ROM byte again.
C7_BootDisableOneWay ==
    (calls.op = "read" /\ calls.addr <= \h00FF /\ calls.latch_written)
        => calls.ret = Cartridge_read(bus.cart, calls.addr)

\* C8: while the boot-disable latch is zero, a read of 0x0000-0x00FF returns
\* boot_rom[addr], and a write there completes and leaves the bus unchanged.
C8_BootWindow ==
    /\ (calls.op = "read" /\ calls.addr <= \h00FF /\ calls.latch = 0)
          => calls.ret = (IF calls.addr < Len(bus.boot_rom)
                          THEN bus.boot_rom[calls.addr + 1] ELSE 0)
    /\ (calls.op = "write" /\ calls.addr <= \h00FF /\ calls.latch = 0)
          => (~panicked /\ ~calls.changed)

\* A read of address 0 returned the first boot ROM byte, where the cartridge
\* holds another, after earlier calls and with the latch still zero.
C8_Witness ==
    /\ calls.op = "read" /\ calls.addr = 0 /\ calls.latch = 0 /\ calls.n > 1
    /\ calls.ret = \h31 /\ Cartridge_read(bus.cart, 0) # \h31

\* The bytes PUSH writes are both in work RAM or high RAM.
StackInRam(sp) ==
    \A a \in {wrapping_sub16(sp, 1), wrapping_sub16(sp, 2)} :
        InRange(a, \hC000, \hDFFF) \/ InRange(a, \hFF80, \hFFFE)

IsPush(op) == op \in {\hC5, \hD5, \hE5, \hF5}

IsPop(op) == op \in {\hC1, \hD1, \hE1, \hF1}

\* The value of the stack pair p in a register file, F masked with 0xF0.
StackPair(r, p) ==
    CASE p = 0 -> <<r.b, r.c>>
      [] p = 1 -> <<r.d, r.e>>
      [] p = 2 -> <<r.h, r.l>>
      [] p = 3 -> <<r.a, 16 * (r.f \div 16)>>

\* C9: PUSH rp2 immediately followed by POP rp2, with the stack in writable RAM,
\* leaves the pair (F masked with 0xF0) and SP as they were before the PUSH.
C9_PushPopRestores ==
    (/\ Retired /\ Len(instrs) > 1
     /\ IsPop(Cur.op) /\ IsPush(Prev.op) /\ P(Cur.op) = P(Prev.op)
     /\ Cur.pc0 = Prev.pc0 + 1
     /\ StackInRam(Prev.regs0.sp))
        => /\ StackPair(bus.cpu.regs, P(Cur.op)) = StackPair(Prev.regs0, P(Cur.op))
           /\ bus.cpu.regs.sp = Prev.regs0.sp

\* PUSH DE / POP DE have both retired, after LD DE,0xFF5A, with the stack in
\* high RAM holding the two bytes.
C9_Witness ==
    /\ Retired /\ Len(instrs) = 3 /\ Cur.op = \hD1 /\ Prev.op = \hD5
    /\ bus.cpu.regs.d = \hFF /\ bus.cpu.regs.e = \h5A
    /\ Bus_read(bus, wrapping_sub16(bus.cpu.regs.sp, 2)) = \h5A
    /\ Bus_read(bus, wrapping_sub16(bus.cpu.regs.sp, 1)) = \hFF

\* C10: after EI executes with IME false, IME stays false through the
\* instruction that follows EI and is true, with the latch cleared, once the
\* decode of the instruction after that has advanced the pending counter.
C10_EiDelay ==
    /\ (Len(instrs) > 1 /\ Prev.op = \hFB /\ ~Prev.ime) => ~bus.cpu.ime
    /\ (Len(instrs) > 2 /\ instrs[Len(instrs) - 2].op = \hFB
                        /\ ~instrs[Len(instrs) - 2].ime)
          => (Cur.ime /\ Cur.en_ime = <<FALSE, 0>>)

\* C11: IME changes only in a call that decodes an instruction, and then either
\* to true, the pending latch having stood at count 1 before the call, or to
\* false, the instruction decoded and stepped being DI; no other step and no
\* bus write changes it.
C11_ImeChanges ==
    [][(bus'.cpu.ime # bus.cpu.ime) =>
         /\ Len(instrs') = Len(instrs) + 1
         /\ IF bus'.cpu.ime
            THEN bus.cpu.en_ime = <<TRUE, 1>>
            ELSE instrs'[Len(instrs')].op = \hF3]_vars

\* DI has retired having cleared an IME that the latch had set before it.
C11_Witness ==
    /\ Retired /\ Len(instrs) > 2 /\ Cur.op = \hF3 /\ Cur.ime0 /\ ~bus.cpu.ime
    /\ instrs[1].op = \hFB

\* C12: CALL nn fetched at P with stack pointer S, the stack in writable RAM,
\* retires with PC = nn, SP = S - 2 (mod 2^16), the high byte of P + 3 at S - 1
\* and its low byte at S - 2; the only bus transaction of M-cycle 5 is the write
\* of the high byte, that of M-cycle 6 the write of the low byte.
C12_CallPushesReturn ==
    (instrs # <<>> /\ Cur.op = \hCD /\ StackInRam(Cur.regs0.sp)) =>
        LET P0  == Cur.pc0
            S   == Cur.regs0.sp
            ra  == wrapping_add16(P0, 3)
        IN  /\ Retired =>
                /\ bus.cpu.regs.pc = Word(Bus_read(bus, wrapping_add16(P0, 2)),
                                          Bus_read(bus, wrapping_add16(P0, 1)))
                /\ bus.cpu.regs.sp = wrapping_sub16(S, 2)
                /\ Bus_read(bus, wrapping_sub16(S, 1)) = Hi(ra)
                /\ Bus_read(bus, wrapping_sub16(S, 2)) = Lo(ra)
            /\ Cur.n = 17 => StepLog = <<<<"write", wrapping_sub16(S, 1), Hi(ra)>>>>
            /\ Cur.n = 21 => StepLog = <<<<"write", wrapping_sub16(S, 2), Lo(ra)>>>>
            /\ (Cur.n < 17 \/ Cur.n \in 18..20) =>
                 \A k \in 1..Len(StepLog) : StepLog[k][1] # "write"

\* CALL 0xC000 fetched at 3 with SP = 0xD000 has retired: PC = 0xC000,
\* SP = 0xCFFE, and 0x0006 on the stack.
C12_Witness ==
    /\ Retired /\ Cur.op = \hCD /\ Cur.pc0 = 3 /\ Cur.regs0.sp = \hD000
    /\ bus.cpu.regs.pc = \hC000 /\ bus.cpu.regs.sp = \hCFFE
    /\ Bus_read(bus, \hCFFF) = 0 /\ Bus_read(bus, \hCFFE) = 6

\* C13: LD (nn),SP reads the two address bytes in M-cycles 2 and 3, writes the
\* low byte of SP to nn in M-cycle 4 and the high byte of SP to nn + 1 in
\* M-cycle 5, and retires with memory[nn] = SP & 0xFF and memory[nn + 1] = SP >> 8
\* (nn and nn + 1 in work RAM or high RAM).
C13_StoreSP ==
    (instrs # <<>> /\ Cur.op = \h08) =>
        LET P0 == Cur.pc0
            nn == Word(Bus_read(bus, wrapping_add16(P0, 2)),
                       Bus_read(bus, wrapping_add16(P0, 1)))
            S  == Cur.regs0.sp
        IN  StackInRam(wrapping_add16(nn, 2)) =>
              /\ Cur.n = 5  => StepLog = <<<<"read", wrapping_add16(P0, 1)>>>>
              /\ Cur.n = 9  => StepLog = <<<<"read", wrapping_add16(P0, 2)>>>>
              /\ Cur.n = 13 => StepLog = <<<<"write", nn, Lo(S)>>>>
              /\ Cur.n = 17 => StepLog = <<<<"write", wrapping_add16(nn, 1), Hi(S)>>>>
              /\ Retired => /\ Bus_read(bus, nn) = Lo(S)
                            /\ Bus_read(bus, wrapping_add16(nn, 1)) = Hi(S)

\* The A,r forms of ADD, SUB, AND, XOR, OR and CP: x = 2, y not ADC or SBC,
\* z not (HL).
IsAluReg(op) == X(op) = 2 /\ Y(op) \in {0, 2, 4, 5, 6, 7} /\ Z(op) # 6

\* C14: ADD, SUB, AND, XOR, OR and CP with a register operand combine A with the
\* register r[z] of the table B, C, D, E, H, L, -, A: the result left in A (for
\* CP the Zero and Carry flags) is that of A and r[z] as they were at the decode.
C14_RegisterOperand ==
    (Retired /\ IsAluReg(Cur.op)) =>
        LET a == Cur.regs0.a
            b == Cur.regs0[RegName(Z(Cur.op))]
            y == Y(Cur.op)
            A == bus.cpu.regs.a
        IN  CASE y = 0 -> A = (a + b) % 256
              [] y = 2 -> A = (a - b + 256) % 256
              [] y = 4 -> A = And8(a, b)
              [] y = 5 -> A = Xor8(a, b)
              [] y = 6 -> A = Or8(a, b)
              [] y = 7 -> /\ A = a
                          /\ contains(bus.cpu.regs.f, Zero) = (a = b)
                          /\ contains(bus.cpu.regs.f, Carry) = (a < b)

\* The operation y of the ALU group (0 ADD, 1 ADC, 2 SUB, 4 AND, 5 XOR, 6 OR,
\* 7 CP) on A and a register other than E, on A and (HL), or on A and an
\* immediate byte.  The A,E forms are those of C14.
IsAluOp(op, y) ==
    \/ X(op) = 2 /\ Y(op) = y /\ Z(op) # 3
    \/ X(op) = 3 /\ Y(op) = y /\ Z(op) = 6

\* The value of the second operand of the ALU instruction i: the immediate
\* byte, the byte at (HL), or the register, as they were at its decode.
AluB(i) ==
    IF X(i.op) = 3 THEN Bus_read(bus, wrapping_add16(i.pc0, 1))
    ELSE IF Z(i.op) = 6 THEN Bus_read(bus, hl(i.regs0))
    ELSE i.regs0[RegName(Z(i.op))]

\* The flags byte with the given Z, N, H and C.
FlagsByte(z, n, h, c) ==
    128 * BoolToInt(z) + 64 * BoolToInt(n) + 32 * BoolToInt(h) + 16 * BoolToInt(c)

\* What alu_add returns for every pair of bytes.
AddAllBytes ==
    \A x \in 0..255 : \A y \in 0..255 :
        LET r == alu_add(x, y)
        IN  /\ r.result = (x + y) % 256
            /\ r.zer = ((x + y) % 256 = 0)
            /\ r.half = ((x % 16) + (y % 16) > 15)
            /\ r.carry = (x + y > 255)

\* C15: ADD with A = a and operand value b leaves A = (a + b) mod 256,
\* Z = (result = 0), N = 0, H = ((a & 0x0F) + (b & 0x0F) > 0x0F) and
\* C = (a + b > 0xFF), in each operand form; and alu_add, which every form
\* calls, returns that result and those flags for every pair of bytes (evaluated
\* where ADD A,A has retired).
C15_AddResult ==
    /\ (Retired /\ IsAluOp(Cur.op, 0)) =>
          LET a == Cur.regs0.a
              b == AluB(Cur)
          IN  /\ bus.cpu.regs.a = (a + b) % 256
              /\ bus.cpu.regs.f = FlagsByte((a + b) % 256 = 0, FALSE,
                                            (a % 16) + (b % 16) > 15, a + b > 255)
    /\ (Retired /\ Cur.op = \h87 /\ Cur.regs0.a = \h80) => AddAllBytes

\* LD A,0x80; ADD A,A has retired with A = 0x00 and F = Z | C.
C15_Witness ==
    /\ Retired /\ Len(instrs) = 2 /\ Cur.op = \h87 /\ Cur.regs0.a = \h80
    /\ Prev.op = \h3E /\ bus.cpu.regs.a = 0 /\ bus.cpu.regs.f = \h90

\* What alu_sub returns for every pair of bytes.
SubAllBytes ==
    \A x \in 0..255 : \A y \in 0..255 :
        LET r == alu_sub(x, y)
        IN  /\ r.result = (x - y + 256) % 256
            /\ r.zer = (x = y)
            /\ r.half = (x % 16 < y % 16)
            /\ r.carry = (x < y)

\* C16: SUB with A = a and operand b leaves A = (a - b) mod 256, Z = (result = 0),
\* N = 1, H = ((a & 0x0F) < (b & 0x0F)) and C = (a < b); CP leaves the same four
\* flags and A = a; in each operand form.  alu_sub, which both call, returns that
\* result and those flags for every pair of bytes (evaluated where SUB A,A has
\* retired).
C16_SubCpResult ==
    /\ (Retired /\ IsAluOp(Cur.op, 2)) =>
          LET a == Cur.regs0.a
              b == AluB(Cur)
          IN  /\ bus.cpu.regs.a = (a - b + 256) % 256
              /\ bus.cpu.regs.f = FlagsByte(a = b, TRUE, a % 16 < b % 16, a < b)
    /\ (Retired /\ IsAluOp(Cur.op, 7)) =>
          LET a == Cur.regs0.a
              b == AluB(Cur)
          IN  /\ bus.cpu.regs.a = a
              /\ bus.cpu.regs.f = FlagsByte(a = b, TRUE, a % 16 < b % 16, a < b)
    /\ (Retired /\ Cur.op = \h97 /\ Cur.regs0.a = \h80) => SubAllBytes

\* LD A,0x00; SUB 0x01 has retired with A = 0xFF and F = N | H | C.
C16_Witness ==
    /\ Retired /\ Len(instrs) = 2 /\ Cur.op = \hD6 /\ Cur.regs0.a = 0
    /\ AluB(Cur) = 1 /\ bus.cpu.regs.a = \hFF /\ bus.cpu.regs.f = \h70

\* C17: in every operand form, AND leaves A = a & b with Z = (A = 0), N = 0,
\* H = 1, C = 0; OR and XOR leave A = a | b and a ^ b with Z = (A = 0) and N, H
\* and C clear.
C17_LogicResult ==
    /\ (Retired /\ IsAluOp(Cur.op, 4)) =>
          /\ bus.cpu.regs.a = And8(Cur.regs0.a, AluB(Cur))
          /\ bus.cpu.regs.f = FlagsByte(bus.cpu.regs.a = 0, FALSE, TRUE, FALSE)
    /\ (Retired /\ IsAluOp(Cur.op, 5)) =>
          /\ bus.cpu.regs.a = Xor8(Cur.regs0.a, AluB(Cur))
          /\ bus.cpu.regs.f = FlagsByte(bus.cpu.regs.a = 0, FALSE, FALSE, FALSE)
    /\ (Retired /\ IsAluOp(Cur.op, 6)) =>
          /\ bus.cpu.regs.a = Or8(Cur.regs0.a, AluB(Cur))
          /\ bus.cpu.regs.f = FlagsByte(bus.cpu.regs.a = 0, FALSE, FALSE, FALSE)

\* What alu_adc returns for every pair of bytes and either carry-in.
AdcAllBytes ==
    \A x \in 0..255 : \A y \in 0..255 : \A cin \in BOOLEAN :
        LET r == alu_adc(x, y, cin)
            c == BoolToInt(cin)
        IN  /\ r.result = (x + y + c) % 256
            /\ r.zer = ((x + y + c) % 256 = 0)
            /\ r.half = ((x % 16) + (y % 16) + c > 15)
            /\ r.carry = (x + y + c > 255)

\* C18: ADC A,n with A = a, immediate b and Carry = c before it leaves
\* A = (a + b + c) mod 256, Z = (result = 0), N = 0,
\* H = ((a & 0x0F) + (b & 0x0F) + c > 0x0F) and C = (a + b + c > 0xFF); and
\* alu_adc, which it calls, returns that result and those flags for every pair
\* of bytes and either carry-in (evaluated where ADC A,0xFF of 0x00 has retired).
C18_AdcResult ==
    /\ (Retired /\ Cur.op = \hCE) =>
          LET a == Cur.regs0.a
              b == AluB(Cur)
              c == BoolToInt(contains(Cur.regs0.f, Carry))
          IN  /\ bus.cpu.regs.a = (a + b + c) % 256
              /\ bus.cpu.regs.f = FlagsByte((a + b + c) % 256 = 0, FALSE,
                                            (a % 16) + (b % 16) + c > 15,
                                            a + b + c > 255)
    /\ (Retired /\ Cur.op = \hCE /\ Cur.regs0.a = 0 /\ AluB(Cur) = \hFF) => AdcAllBytes

\* LD A,0x00; ADC A,0xFF with Carry set has retired with A = 0x00 and
\* F = Z | H | C: the carry out comes from the carry-in alone.
C18_Witness ==
    /\ Retired /\ Len(instrs) = 2 /\ Cur.op = \hCE /\ Cur.regs0.a = 0
    /\ AluB(Cur) = \hFF /\ contains(Cur.regs0.f, Carry)
    /\ bus.cpu.regs.a = 0 /\ bus.cpu.regs.f = \hB0

IsAddHL(op) == op \in {\h09, \h19, \h29, \h39}

\* The register pair rp[p] in a register file.
PairOf(r, p) ==
    CASE p = 0 -> bc(r) [] p = 1 -> de(r) [] p = 2 -> hl(r) [] p = 3 -> r.sp

\* 16-bit values with every high byte over a low byte of 0x00 and of 0xFF.
WideValues == {256 * h + l : h \in 0..255, l \in {\h00, \hFF}}

\* What alu_add_u16 returns for the pairs of WideValues.
AddWideAll ==
    \A x \in WideValues : \A y \in WideValues :
        LET r == alu_add_u16(x, y)
        IN  /\ r.result = (x + y) % 65536
            /\ r.half = ((x % 4096) + (y % 4096) > 4095)
            /\ r.carry = (x + y > 65535)

\* C19: ADD HL,rp, for rp = BC, DE, HL and SP, leaves HL = (HL + rp) mod 2^16,
\* Z as it was, N = 0, H = the carry out of bit 11, C = the carry out of bit 15,
\* and A, B, C, D, E and SP as they were; and alu_add_u16, which it calls,
\* returns that sum and those carries (evaluated where ADD HL,HL has retired).
C19_AddHL ==
    /\ (Retired /\ IsAddHL(Cur.op)) =>
          LET r0 == Cur.regs0
              x  == hl(r0)
              y  == PairOf(r0, P(Cur.op))
              r  == bus.cpu.regs
          IN  /\ hl(r) = (x + y) % 65536
              /\ r.f = FlagsByte(contains(r0.f, Zero), FALSE,
                                 (x % 4096) + (y % 4096) > 4095, x + y > 65535)
              /\ r.a = r0.a /\ r.b = r0.b /\ r.c = r0.c
              /\ r.d = r0.d /\ r.e = r0.e /\ r.sp = r0.sp
    /\ (Retired /\ Cur.op = \h29 /\ Cur.regs0.h = \h80) => AddWideAll

\* LD HL,0x0FFF; LD DE,0x0001; ADD HL,DE has retired with HL = 0x1000, H set,
\* C clear and Z as the mode left it (set).
C19_Witness ==
    /\ Retired /\ Len(instrs) = 3 /\ Cur.op = \h19
    /\ hl(Cur.regs0) = \h0FFF /\ de(Cur.regs0) = 1
    /\ hl(bus.cpu.regs) = \h1000 /\ bus.cpu.regs.f = \hA0

\* INC r and DEC r on a register: x = 0, z = 4 or 5, y not (HL).
IsIncR(op) == X(op) = 0 /\ Z(op) = 4 /\ Y(op) # 6

IsDecR(op) == X(op) = 0 /\ Z(op) = 5 /\ Y(op) # 6

\* C20: INC r leaves r = (v + 1) mod 256, Z from the result, N = 0 and
\* H = ((v & 0x0F) = 0x0F); DEC r leaves r = (v - 1) mod 256, Z from the result,
\* N = 1 and H = ((v & 0x0F) = 0); both leave C as it was; and INC r followed by
\* DEC r leaves r and C as they were before the INC.
C20_IncDec ==
    /\ (Retired /\ IsIncR(Cur.op)) =>
          LET v == Cur.regs0[RegName(Y(Cur.op))]
          IN  /\ bus.cpu.regs[RegName(Y(Cur.op))] = (v + 1) % 256
              /\ bus.cpu.regs.f = FlagsByte((v + 1) % 256 = 0, FALSE, v % 16 = 15,
                                            contains(Cur.regs0.f, Carry))
    /\ (Retired /\ IsDecR(Cur.op)) =>
          LET v == Cur.regs0[RegName(Y(Cur.op))]
          IN  /\ bus.cpu.regs[RegName(Y(Cur.op))] = (v + 255) % 256
              /\ bus.cpu.regs.f = FlagsByte((v + 255) % 256 = 0, TRUE, v % 16 = 0,
                                            contains(Cur.regs0.f, Carry))
    /\ (/\ Retired /\ Len(instrs) > 1 /\ IsDecR(Cur.op) /\ IsIncR(Prev.op)
        /\ Y(Cur.op) = Y(Prev.op) /\ Cur.pc0 = Prev.pc0 + 1) =>
          /\ bus.cpu.regs[RegName(Y(Cur.op))] = Prev.regs0[RegName(Y(Cur.op))]
          /\ contains(bus.cpu.regs.f, Carry) = contains(Prev.regs0.f, Carry)

\* LD B,0xFF; INC B; DEC B has retired: B went through 0x00 (Z and H set by the
\* INC) and is 0xFF again, with N and H set by the DEC and C still set.
C20_Witness ==
    /\ Retired /\ Len(instrs) = 3 /\ Cur.op = \h05 /\ Prev.op = \h04
    /\ Prev.regs0.b = \hFF /\ Cur.regs0.b = 0 /\ Cur.regs0.f = \hB0
    /\ bus.cpu.regs.b = \hFF /\ bus.cpu.regs.f = \h70

IsIncRp(op) == op \in {\h03, \h13, \h23, \h33}

IsDecRp(op) == op \in {\h0B, \h1B, \h2B, \h3B}

\* The registers that make up the pair rp[p].
PairNames(p) ==
    CASE p = 0 -> {"b", "c"} [] p = 1 -> {"d", "e"} [] p = 2 -> {"h", "l"}
      [] p = 3 -> {"sp"}

\* Every register but PC and those of the pair rp[p] is as it was in r0.
OthersKept(r, r0, p) ==
    \A nm \in {"a", "f", "b", "c", "d", "e", "h", "l", "sp"} \ PairNames(p) :
        r[nm] = r0[nm]

\* C21: INC rp leaves the pair rp[p] = (value + 1) mod 2^16 and DEC rp leaves it
\* = (value - 1) mod 2^16, for BC, DE, HL and SP alike, and neither changes F or a
\* register outside the pair.
C21_IncDecPair ==
    /\ (Retired /\ IsIncRp(Cur.op)) =>
          /\ PairOf(bus.cpu.regs, P(Cur.op)) = (PairOf(Cur.regs0, P(Cur.op)) + 1) % 65536
          /\ OthersKept(bus.cpu.regs, Cur.regs0, P(Cur.op))
    /\ (Retired /\ IsDecRp(Cur.op)) =>
          /\ PairOf(bus.cpu.regs, P(Cur.op))
                = (PairOf(Cur.regs0, P(Cur.op)) + 65535) % 65536
          /\ OthersKept(bus.cpu.regs, Cur.regs0, P(Cur.op))

\* The CB rotate/shift group on a register: second byte with x = 0, z not (HL).
IsRotReg(i) == i.op = \hCB /\ X(i.cb) = 0 /\ Z(i.cb) # 6

\* The documented result of rot[y] on the byte v with carry-in c: RLC, RRC, RL,
\* RR, SLA, SRA, SWAP, SRL.
IsaRot(y, v, c) ==
    CASE y = 0 -> ((2 * v) % 256) + (v \div 128)
      [] y = 1 -> (v \div 2) + 128 * (v % 2)
      [] y = 2 -> ((2 * v) % 256) + c
      [] y = 3 -> (v \div 2) + 128 * c
      [] y = 4 -> (2 * v) % 256
      [] y = 5 -> (v \div 2) + 128 * (v \div 128)
      [] y = 6 -> 16 * (v % 16) + (v \div 16)
      [] y = 7 -> v \div 2

\* The bit rot[y] shifts out of v; none for SWAP.
IsaRotOut(y, v) ==
    CASE y \in {0, 2, 4} -> v \div 128
      [] y \in {1, 3, 5, 7} -> v % 2
      [] y = 6 -> 0

\* C22: after a CB rotate or shift of a register holding v, with carry-in c,
\* Z = (result = 0), N = 0, H = 0 and C = the bit shifted out of v; SWAP leaves
\* C = 0 whatever c was.
C22_RotFlags ==
    (Retired /\ IsRotReg(Cur)) =>
        LET y == Y(Cur.cb)
            v == Cur.regs0[RegName(Z(Cur.cb))]
            c == BoolToInt(contains(Cur.regs0.f, Carry))
        IN  bus.cpu.regs.f = FlagsByte(IsaRot(y, v, c) = 0, FALSE, FALSE,
                                       IsaRotOut(y, v) = 1)

\* The last k instructions are the same CB instruction at consecutive addresses.
RunOf(k) ==
    /\ Len(instrs) >= k
    /\ \A j \in (Len(instrs) - k + 1)..Len(instrs) :
          /\ instrs[j].op = \hCB
          /\ instrs[j].cb = Cur.cb
          /\ j > Len(instrs) - k + 1 => instrs[j].pc0 = instrs[j - 1].pc0 + 2

\* rot[y] applied k times to the byte v and the carry c, as <<byte, carry>>.
RECURSIVE RotTimes(_, _, _, _)
RotTimes(y, v, c, k) ==
    IF k = 0 THEN <<v, c>>
    ELSE RotTimes(y, RotResult(y, v, c), BoolToInt(RotCarry(y, v, c) # 0), k - 1)

\* Eight RLC or RRC, and nine RL or RR, of any byte with any carry.
RotAllBytes ==
    \A v \in 0..255 : \A c \in 0..1 :
        /\ \A y \in {0, 1} : RotTimes(y, v, c, 8)[1] = v
        /\ \A y \in {2, 3} : RotTimes(y, v, c, 9) = <<v, c>>

\* C23: eight successive RLC r (or RRC r) leave r as it was before the first;
\* nine successive RL r (or RR r) leave r and the Carry flag as they were before
\* the first.
C23_RotationPeriod ==
    /\ (Retired /\ IsRotReg(Cur) /\ Y(Cur.cb) \in {0, 1} /\ RunOf(8)) =>
          /\ bus.cpu.regs[RegName(Z(Cur.cb))]
                = instrs[Len(instrs) - 7].regs0[RegName(Z(Cur.cb))]
          /\ RotAllBytes
    /\ (Retired /\ IsRotReg(Cur) /\ Y(Cur.cb) \in {2, 3} /\ RunOf(9)) =>
          /\ bus.cpu.regs[RegName(Z(Cur.cb))]
                = instrs[Len(instrs) - 8].regs0[RegName(Z(Cur.cb))]
          /\ contains(bus.cpu.regs.f, Carry)
                = contains(instrs[Len(instrs) - 8].regs0.f, Carry)

\* Nine RL B of 0x80 with Carry set have retired; the first one left B = 0x01.
C23_Witness ==
    /\ Retired /\ RunOf(9) /\ Cur.cb = \h10
    /\ instrs[Len(instrs) - 8].regs0.b = \h80
    /\ contains(instrs[Len(instrs) - 8].regs0.f, Carry)
    /\ instrs[Len(instrs) - 7].regs0.b = \h01
    /\ bus.cpu.regs.b = \h80

\* Bit b of the byte v.
BitOf(v, b) == (v \div (2 ^ b)) % 2

\* BIT, RES or SET on a register, or on (HL) straight after LD (HL),v with HL in
\* work RAM or high RAM.
IsBitOp(i) == i.op = \hCB /\ X(i.cb) \in 1..3

BitOnRegister == Retired /\ IsBitOp(Cur) /\ Z(Cur.cb) # 6

BitOnIndirect ==
    /\ Retired /\ IsBitOp(Cur) /\ Z(Cur.cb) = 6
    /\ Len(instrs) >= 2 /\ Prev.op = \h36 /\ Cur.pc0 = Prev.pc0 + 2
    /\ InRange(hl(Cur.regs0), \hC000, \hDFFF) \/ InRange(hl(Cur.regs0), \hFF80, \hFFFE)

\* What BIT, RES (x = 2) or SET (x = 3) b leave in an operand that held v, and
\* in F, given the flags f before.
IsaBitOperand(x, b, v) ==
    CASE x = 1 -> v
      [] x = 2 -> v - BitOf(v, b) * (2 ^ b)
      [] x = 3 -> v + (1 - BitOf(v, b)) * (2 ^ b)

IsaBitFlags(x, b, v, f) ==
    IF x = 1 THEN FlagsByte(BitOf(v, b) = 0, FALSE, TRUE, contains(f, Carry)) ELSE f

\* The masks of bit, res and set on every byte and bit index.
BitAllBytes ==
    \A v \in 0..255 : \A b \in 0..7 :
        /\ (And8(v, Shl8(1, b)) = 0) = (BitOf(v, b) = 0)
        /\ And8(v, Not8(Shl8(1, b))) = IsaBitOperand(2, b, v)
        /\ Or8(v, Shl8(1, b)) = IsaBitOperand(3, b, v)

\* C24: BIT b leaves Z = 1 iff bit b of the operand is 0, N = 0, H = 1, and C and
\* the operand as they were; RES b clears and SET b sets bit b of the operand
\* and leaves its other bits and the four flags as they were; the operand a
\* register or the byte at HL.
C24_BitResSet ==
    /\ BitOnRegister =>
          LET x == X(Cur.cb)
              b == Y(Cur.cb)
              v == Cur.regs0[RegName(Z(Cur.cb))]
          IN  /\ bus.cpu.regs[RegName(Z(Cur.cb))] = IsaBitOperand(x, b, v)
              /\ bus.cpu.regs.f = IsaBitFlags(x, b, v, Cur.regs0.f)
              /\ Cur.cb = \h40 => BitAllBytes
    /\ BitOnIndirect =>
          LET x == X(Cur.cb)
              b == Y(Cur.cb)
              v == Bus_read(bus, Prev.pc0 + 1)
          IN  /\ hl(bus.cpu.regs) = hl(Cur.regs0)
              /\ Bus_read(bus, hl(Cur.regs0)) = IsaBitOperand(x, b, v)
              /\ bus.cpu.regs.f = IsaBitFlags(x, b, v, Cur.regs0.f)

\* RES 3,(HL) has cleared bit 3 of the 0xFF at 0xC000, with Z, H and C still set.
C24_Witness ==
    /\ BitOnIndirect /\ Cur.cb = \h9E
    /\ hl(Cur.regs0) = \hC000
    /\ Bus_read(bus, Prev.pc0 + 1) = \hFF
    /\ Bus_read(bus, \hC000) = \hF7
    /\ bus.cpu.regs.f = \hB0

\* The last call was a write of calls.data to calls.addr that returned.
Wrote(lo, hi) ==
    calls.op = "write" /\ ~panicked /\ InRange(calls.addr, lo, hi)

\* The bank the range 0xD000-0xDFFF addresses when the bank register holds w.
IsaBank(w) == IF w \in {0, 1} THEN 1 ELSE w

\* The cells of bank 0 of work RAM.
BankZero(b) == [k \in {c \in DOMAIN b.mem.wram : c[1] = 0} |-> b.mem.wram[k]]

\* C25: the bank register holds the low three bits of the last byte written to
\* 0xFF70, and a read of 0xFF70 returns them; 0xD000-0xDFFF address the bank
\* max(bank, 1) and 0xC000-0xCFFF bank 0; a write to 0xD000-0xDFFF leaves bank 0
\* as it was.
C25_WramBank ==
    LET w == IF calls.bank_written = PANIC THEN 0 ELSE calls.bank_written % 8
    IN  /\ bus.mem.wbank = w
        /\ Bus_read(bus, \hFF70) = w
        /\ \A a \in {\hD000, \hDFFF} :
              Bus_read(bus, a) = Load(bus.mem.wram, <<IsaBank(w), a - \hD000>>)
        /\ \A a \in {\hC000, \hCFFF} :
              Bus_read(bus, a) = Load(bus.mem.wram, <<0, a - \hC000>>)
        /\ Wrote(\hD000, \hDFFF) =>
              /\ BankZero(bus) = BankZero(calls.bus0)
              /\ Load(bus.mem.wram, <<IsaBank(w), calls.addr - \hD000>>) = calls.data
              /\ \A a \in {\hC000, \hCFFF} : Bus_read(bus, a) = Bus_read(calls.bus0, a)

\* 0x01 was written to 0xD000 in bank 1, then 0x0A to 0xFF70, then 0xFF to 0xD000:
\* the register holds 2, bank 2 has the 0xFF and bank 1 still the 0x01.
C25_Witness ==
    /\ Wrote(\hD000, \hD000) /\ calls.data = \hFF
    /\ calls.bank_written = \h0A /\ bus.mem.wbank = 2
    /\ Load(bus.mem.wram, <<2, 0>>) = \hFF
    /\ Load(bus.mem.wram, <<1, 0>>) = \h01
    /\ Bus_read(bus, \hD000) = \hFF

\* No address of echo RAM is redirected into echo RAM.
EchoOnce == \A a \in \hE000..\hFDFF : ~InRange(a - \h2000, \hE000, \hFDFF)

\* C26: a read of an echo RAM address a returns what a read of a - 0x2000
\* returns, and a write of v to a does what a write of v to a - 0x2000 does, in
\* the bank selected for 0xD000-0xDDFF; a - 0x2000 is never in echo RAM.
C26_EchoRam ==
    /\ \A a \in {\hE000, \hF000, \hFD02, \hFDFF} :
          Bus_read(bus, a) = Bus_read(bus, a - \h2000)
    /\ (calls.op = "read" /\ InRange(calls.addr, \hE000, \hFDFF)) =>
          ~panicked /\ calls.ret = Bus_read(calls.bus0, calls.addr - \h2000)
    /\ (calls.op = "write" /\ InRange(calls.addr, \hE000, \hFDFF)) =>
          LET r == Bus_write(calls.bus0, calls.addr - \h2000, calls.data)
          IN  /\ panicked = ~r.ok
              /\ r.ok => bus = r.v
    /\ Wrote(\hE000, \hFDFF) =>
          Load(bus.mem.wram,
               <<IF calls.addr < \hF000 THEN 0 ELSE IsaBank(bus.mem.wbank),
                 calls.addr % \h1000>>) = calls.data
    /\ calls.n = 0 => EchoOnce

\* With bank 2 selected, 0x5A was written to 0xF000: it is in bank 2 and read
\* back at 0xD000.
C26_Witness ==
    /\ Wrote(\hF000, \hF000) /\ calls.data = \h5A
    /\ bus.mem.wbank = 2
    /\ Load(bus.mem.wram, <<2, 0>>) = \h5A
    /\ Bus_read(bus, \hD000) = \h5A

\* C27: outside Color-GBC mode a read of 0xFF72-0xFF75 returns 0xFF and does not
\* abort; in Color-GBC mode a byte v written to 0xFF72, 0xFF73 or 0xFF74 is read
\* back as v, and one written to 0xFF75 as v & 0x70.
C27_UndocRegs ==
    /\ (mode # "GameboyColorGBC" /\ calls.op = "read"
            /\ InRange(calls.addr, \hFF72, \hFF75)) =>
          ~panicked /\ calls.ret = \hFF
    /\ (mode = "GameboyColorGBC" /\ calls.op = "write"
            /\ InRange(calls.addr, \hFF72, \hFF75)) =>
          /\ ~panicked
          /\ Bus_read(bus, calls.addr) =
                IF calls.addr = \hFF75 THEN ((calls.data \div 16) % 8) * 16
                ELSE calls.data

\* C28: with the boot ROM disabled, a read of an address in 0x0000-0x7FFF
\* returns rom[addr], or 0xFF past the end of the ROM; a write there returns and
\* leaves the bus, and so the ROM and every later read, as it was.
C28_CartridgeRom ==
    /\ (calls.op = "read" /\ calls.addr <= \h7FFF /\ calls.latch # 0) =>
          /\ ~panicked
          /\ calls.ret = (IF calls.addr < Len(bus.cart.rom)
                          THEN bus.cart.rom[calls.addr + 1] ELSE \hFF)
    /\ (calls.op = "write" /\ calls.addr <= \h7FFF /\ calls.latch # 0) =>
          (~panicked /\ ~calls.changed)

\* The removed opcodes, STOP, HALT, DAA, CPL, SCF, CCF and RETI.
FatalOpcodes ==
    {\hD3, \hDB, \hDD, \hE3, \hE4, \hEB, \hEC, \hED, \hF4, \hFC, \hFD,
     \h10, \h76, \h27, \h2F, \h37, \h3F, \hD9}

\* The call that decodes the first instruction aborted.
FirstDecodeAborted == panicked /\ instrs = <<>>

\* C29: the call that decodes a main opcode aborts if and only if the opcode is
\* removed or is STOP, HALT, DAA, CPL, SCF, CCF or RETI; every other main opcode,
\* the conditional JPs among them, and 0xCB with any second byte installs a
\* procedure and takes its first step.
C29_FatalOpcodes ==
    /\ \A j \in DOMAIN instrs : instrs[j].op \notin FatalOpcodes
    /\ FirstDecodeAborted => Bus_read(bus, 0) \in FatalOpcodes

\* C30: a tcycle call with tcount = 0 makes at most one bus transaction, whatever
\* the instruction and the M-cycle, the decode call of a CB-prefixed instruction
\* and the calls in which a step reads its opcode again included.
C30_OneTransaction == ~panicked => Len(bus_log) <= 1

\* C31: SP wraps modulo 2^16. PUSH decoded with SP = 0x0000 writes the high byte
\* to 0xFFFF in M-cycle 3 and the low byte to 0xFFFE in M-cycle 4, does not
\* abort, and retires with SP = 0xFFFE; POP decoded with SP = 0xFFFE reads
\* 0xFFFE in M-cycle 2 and 0xFFFF in M-cycle 3, and retires with SP = 0x0000.
C31_StackWraps ==
    /\ (instrs # <<>> /\ IsPush(Cur.op) /\ Cur.regs0.sp = 0) =>
          LET p == P(Cur.op)
          IN  /\ ~panicked
              /\ Cur.n = 9  => StepLog = <<<<"write", \hFFFF, Cur.regs0[Rp2Hi(p)]>>>>
              /\ Cur.n = 13 =>
                    StepLog = <<<<"write", \hFFFE,
                                  IF p = 3 THEN (Cur.regs0.f \div 16) * 16
                                  ELSE Cur.regs0[Rp2Lo(p)]>>>>
              /\ Retired => bus.cpu.regs.sp = \hFFFE
              /\ (Retired /\ Cur.n = 13) =>
                    /\ Bus_read(bus, \hFFFF) = Cur.regs0[Rp2Hi(p)]
                    /\ bus.cpu.interrupt_enable = Cur.regs0[Rp2Hi(p)]
    /\ (instrs # <<>> /\ IsPop(Cur.op) /\ Cur.regs0.sp = \hFFFE) =>
          /\ ~panicked
          /\ Cur.n = 5 => StepLog = <<<<"read", \hFFFE>>>>
          /\ Cur.n = 9 => StepLog = <<<<"read", \hFFFF>>>>
          /\ Retired => bus.cpu.regs.sp = 0

\* LD SP,0x0000; PUSH DE; POP BC have retired: the PUSH left SP = 0xFFFE and D
\* at 0xFFFF, the POP brought SP back to 0x0000.
C31_Witness ==
    /\ Retired /\ Len(instrs) = 3
    /\ Cur.op = \hC1 /\ Cur.regs0.sp = \hFFFE /\ bus.cpu.regs.sp = 0
    /\ Prev.op = \hD5 /\ Prev.regs0.sp = 0
    /\ bus.cpu.regs.b = Prev.regs0.d /\ bus.cpu.regs.c = Prev.regs0.e
    /\ bus.cpu.interrupt_enable = Prev.regs0.d

\* C32: PC wraps modulo 2^16. A fetch at PC = 0xFFFF leaves PC = 0x0000 and does
\* not abort, and JR d retires with PC = (address after the operand + d as a
\* signed byte) mod 2^16: JR 0xFF whose operand is at 0xFFFF retires with
\* PC = 0xFFFF.
C32_PcWraps ==
    (instrs # <<>> /\ Cur.op = \h18 /\ Cur.pc0 = \hFFFE) =>
        /\ bus.cpu.procedure # None => ~panicked
        /\ Cur.n = 5 => StepLog = <<<<"read", \hFFFF>>>> /\ bus.cpu.regs.pc = 0
        /\ Retired =>
              bus.cpu.regs.pc = (65536 + SignExtend8(Bus_read(bus, \hFFFF))) % 65536

\* LD HL,0x00FF; INC L; INC L has run from the initial state of the original
\* Game Boy and the second INC has retired.
IncLTwice ==
    /\ mode = "Gameboy" /\ Retired /\ Len(instrs) = 3
    /\ instrs[1].op = \h21 /\ instrs[1].pc0 = 0
    /\ instrs[2].op = \h2C /\ hl(instrs[2].regs0) = \h00FF
    /\ instrs[3].op = \h2C /\ instrs[3].pc0 = 4

\* C33 as stated: after LD HL,0x00FF; INC L; INC L from the initial state of the
\* original Game Boy, H = 0x01, L = 0x01, Z = 0, N = 0, the half-carry flag is 1
\* and C is as it was before the sequence.
C33_IncLTwice ==
    IncLTwice =>
        /\ bus.cpu.regs.h = \h01 /\ bus.cpu.regs.l = \h01
        /\ bus.cpu.regs.f =
              FlagsByte(FALSE, FALSE, TRUE, contains(instrs[1].regs0.f, Carry))

\* C33 amended: after the sequence H = 0x00 (INC L does not carry into H),
\* L = 0x01, Z = 0, N = 0, the half-carry flag is 0 and C is as it was before the
\* sequence; it is the first INC L, taking L from 0xFF to 0x00, that leaves
\* Z = 1 and the half-carry flag 1.
C33_IncLTwice_Amended ==
    IncLTwice =>
        /\ bus.cpu.regs.h = \h00 /\ bus.cpu.regs.l = \h01
        /\ bus.cpu.regs.f =
              FlagsByte(FALSE, FALSE, FALSE, contains(instrs[1].regs0.f, Carry))
        /\ instrs[3].regs0.h = \h00 /\ instrs[3].regs0.l = \h00
        /\ instrs[3].regs0.f =
              FlagsByte(TRUE, FALSE, TRUE, contains(instrs[1].regs0.f, Carry))

\* The sequence has retired with L = 0x01 and Carry still set as at the start.
C33_Witness ==
    /\ IncLTwice /\ bus.cpu.regs.l = \h01
    /\ instrs[1].regs0.f = \hB0 /\ contains(bus.cpu.regs.f, Carry)

IsCond(op) == IsCondJR(op) \/ IsCondCALL(op) \/ IsCondRET(op)

\* The documented M-cycles of a conditional instruction whose condition is false.
NotTakenMCycles(op) == IF IsCondCALL(op) THEN 3 ELSE 2

\* What a conditional instruction leaves when it retires: F as it was; not
\* taken, PC at the next instruction and SP as it was; taken, the jump, the
\* call (stack in writable RAM) or the return.
CondEffect ==
    LET P0 == Cur.pc0
        S  == Cur.regs0.sp
        r  == bus.cpu.regs
    IN  /\ r.f = Cur.regs0.f
        /\ ~Taken(Cur) => r.pc = P0 + IsaLength(Cur.op) /\ r.sp = S
        /\ (Taken(Cur) /\ IsCondJR(Cur.op)) =>
              /\ r.pc = (65536 + P0 + 2 + SignExtend8(Bus_read(bus, P0 + 1))) % 65536
              /\ r.sp = S
        /\ (Taken(Cur) /\ IsCondCALL(Cur.op) /\ StackInRam(S)) =>
              /\ r.pc = Word(Bus_read(bus, P0 + 2), Bus_read(bus, P0 + 1))
              /\ r.sp = wrapping_sub16(S, 2)
              /\ Bus_read(bus, wrapping_sub16(S, 1)) = Hi(P0 + 3)
              /\ Bus_read(bus, wrapping_sub16(S, 2)) = Lo(P0 + 3)
        /\ (Taken(Cur) /\ IsCondRET(Cur.op)) =>
              /\ r.pc = Word(Bus_read(bus, wrapping_add16(S, 1)), Bus_read(bus, S))
              /\ r.sp = wrapping_add16(S, 2)

\* The bus transactions of a call are reads of the instruction's own bytes.
OnlyFetches ==
    \A k \in 1..Len(StepLog) :
        StepLog[k][1] = "read" /\ InRange(StepLog[k][2], Cur.pc0, Cur.pc0 + 2)

\* C34: a conditional JR, CALL or RET tests cc[y] (NZ, Z, NC, C) on F and, when
\* the condition is false, retires at the documented step with PC at the next
\* instruction, SP as it was and no stack access; when it is true JR lands at
\* the address after its operand plus the signed displacement, CALL pushes the
\* return address and loads PC with nn, and RET pops PC; F is unchanged.
C34_Conditionals ==
    (instrs # <<>> /\ ~panicked /\ IsCond(Cur.op)) =>
        /\ Retired => CondEffect
        /\ ~Taken(Cur) => OnlyFetches
        /\ (~Taken(Cur) /\ AtBoundary) => Cur.n = 4 * NotTakenMCycles(Cur.op)

\* A call made while tcount # 0: tcount goes up by one modulo 4, nothing else of
\* the machine changes, and the call makes no bus transaction.
WaitCallFrame ==
    bus.cpu.tcount # 0 =>
        /\ bus' = [bus EXCEPT !.cpu.tcount = (bus.cpu.tcount + 1) % 4]
        /\ bus_log' = <<>>
        /\ ~panicked'

\* The step function runs only in the calls made with tcount = 0: the M-cycle
\* index of the procedure in flight moves in no other call, and by one there.
StepOncePerGroup ==
    (bus.cpu.procedure # None /\ bus'.cpu.procedure # None) =>
        unwrap(bus'.cpu.procedure).mcycle =
            unwrap(bus.cpu.procedure).mcycle + (IF bus.cpu.tcount = 0 /\ ~panicked' THEN 1 ELSE 0)

\* The decode call runs M-cycle 1, the call four later M-cycle 2, and so on: the
\* stored index is that of the next M-cycle.
MCycleFollowsCalls ==
    (instrs # <<>> /\ bus.cpu.procedure # None) =>
        /\ unwrap(bus.cpu.procedure).mcycle = ((Cur.n - 1) \div 4) + 2
        /\ bus.cpu.tcount = Cur.n % 4

\* C35: a tcycle call made while tcount # 0 changes nothing but tcount, which it
\* increments modulo 4, and makes no bus transaction; the step function of an
\* instruction is called once in every four calls, in the call with
\* tcount = 0, with M-cycle index 1 in the decode call and one more in each
\* following one; tcount is always in 0..3.
C35_WaitCalls ==
    /\ [](bus.cpu.tcount \in 0..3 /\ MCycleFollowsCalls)
    /\ [][WaitCallFrame /\ StepOncePerGroup]_vars

\* Seven calls into LD (nn),SP: M-cycles 1 and 2 have run, the third is next, and
\* the last call was one with tcount = 2.
C35_Witness ==
    /\ instrs # <<>> /\ Cur.op = \h08 /\ Cur.n = 7
    /\ bus.cpu.tcount = 3 /\ bus.cpu.procedure # None
    /\ unwrap(bus.cpu.procedure).mcycle = 3
    /\ bus_log = <<>>

\* Instruction j is a DI that has retired and no EI has been decoded after it.
DiStands(j) ==
    /\ instrs[j].op = \hF3
    /\ j < Len(instrs) \/ Retired
    /\ \A k \in (j + 1)..Len(instrs) : instrs[k].op # \hFB

\* C36: once DI has retired IME is false, and stays false through every later
\* instruction until an EI is executed after that DI; so EI; DI; NOP; NOP
\* leaves IME false, the DI cancelling the EI still pending.
C36_DiHolds == \A j \in DOMAIN instrs : DiStands(j) => ~bus.cpu.ime

IsRam(a) == InRange(a, \hC000, \hDFFF) \/ InRange(a, \hFF80, \hFFFE)

\* The cells in which two arrays differ.
CellsChanged(old, new) ==
    {k \in (DOMAIN old) \cup (DOMAIN new) : Load(old, k) # Load(new, k)}

\* C37: a write of a byte v to an address a of work RAM or high RAM returns, a
\* read of a then returns v, and no other cell of work RAM or high RAM and no
\* register has changed.
C37_RamWriteRead ==
    (calls.op = "write" /\ IsRam(calls.addr)) =>
        /\ ~panicked
        /\ Bus_read(bus, calls.addr) = calls.data
        /\ bus.cpu = calls.bus0.cpu
        /\ [bus EXCEPT !.mem.wram = <<>>, !.mem.hram = <<>>]
              = [calls.bus0 EXCEPT !.mem.wram = <<>>, !.mem.hram = <<>>]
        /\ Cardinality(CellsChanged(calls.bus0.mem.wram, bus.mem.wram))
              + Cardinality(CellsChanged(calls.bus0.mem.hram, bus.mem.hram)) <= 1
        /\ \A a \in {x \in calls.addrs : IsRam(x)} \ {calls.addr} :
              Bus_read(bus, a) = Bus_read(calls.bus0, a)

\* A rotate or shift of (HL) straight after LD (HL),v, HL in work RAM or high RAM.
RotOnIndirect ==
    /\ instrs # <<>> /\ ~panicked
    /\ Cur.op = \hCB /\ X(Cur.cb) = 0 /\ Z(Cur.cb) = 6
    /\ Len(instrs) >= 2 /\ Prev.op = \h36 /\ Cur.pc0 = Prev.pc0 + 2
    /\ InRange(hl(Cur.regs0), \hC000, \hDFFF) \/ InRange(hl(Cur.regs0), \hFF80, \hFFFE)

\* C38: a CB rotate or shift of (HL) reads the byte at HL in M-cycle 3 and
\* writes the result back in M-cycle 4: once it has retired the byte at HL and F
\* are what the same operation leaves in a register that held the byte, and in
\* F.
C38_RotIndirect ==
    RotOnIndirect =>
        LET y == Y(Cur.cb)
            a == hl(Cur.regs0)
            v == Bus_read(bus, Prev.pc0 + 1)
            c == BoolToInt(contains(Cur.regs0.f, Carry))
        IN  /\ Cur.n = 9 => StepLog = <<<<"read", a>>>>
            /\ Cur.n = 13 => StepLog = <<<<"write", a, RotResult(y, v, c)>>>>
            /\ Retired =>
                  /\ Bus_read(bus, a) = RotResult(y, v, c)
                  /\ bus.cpu.regs.f =
                        FlagsByte(RotResult(y, v, c) = 0, FALSE, FALSE,
                                  RotCarry(y, v, c) # 0)

IsSwapReg(i) == IsRotReg(i) /\ Y(i.cb) = 6

\* C39: SWAP r of a register holding v leaves r = ((v << 4) | (v >> 4)) & 0xFF,
\* the two nibbles exchanged, so that two successive SWAP r leave r = v.
C39_SwapNibbles ==
    /\ (Retired /\ IsSwapReg(Cur)) =>
          LET v == Cur.regs0[RegName(Z(Cur.cb))]
          IN  bus.cpu.regs[RegName(Z(Cur.cb))] = 16 * (v % 16) + (v \div 16)
    /\ (Retired /\ IsSwapReg(Cur) /\ RunOf(2)) =>
          bus.cpu.regs[RegName(Z(Cur.cb))] = Prev.regs0[RegName(Z(Cur.cb))]

\* Between calls: a stored procedure is not done and its M-cycle index is in
\* 2..6; the latch counter is 0 or 1, and 0 when no enable is pending;
\* instr_count is one more than the number of instructions retired.
Bookkeeping ==
    /\ bus.cpu.procedure # None =>
          /\ ~unwrap(bus.cpu.procedure).done
          /\ unwrap(bus.cpu.procedure).mcycle \in 2..6
    /\ bus.cpu.en_ime[2] \in {0, 1}
    /\ ~bus.cpu.en_ime[1] => bus.cpu.en_ime[2] = 0
    /\ bus.cpu.instr_count =
          Len(instrs) + (IF bus.cpu.procedure = None THEN 1 ELSE 0)

\* instr_count moves only in a call with tcount = 0 that ends with no procedure
\* stored, the one whose step set done, and then by one.
CountsRetirements ==
    /\ bus'.cpu.instr_count \in {bus.cpu.instr_count, bus.cpu.instr_count + 1}
    /\ (bus'.cpu.instr_count = bus.cpu.instr_count + 1)
          <=> (bus.cpu.tcount = 0 /\ ~panicked' /\ bus'.cpu.procedure = None)

\* C40: between tcycle calls a stored procedure never has done = true and its
\* M-cycle index is between 2 and 6; the procedure is discarded in the call whose
\* step sets done, and instr_count rises by exactly one there; the EI latch has
\* its counter in {0, 1}, and at 0 whenever no enable is pending.
C40_Bookkeeping == []Bookkeeping /\ [][CountsRetirements]_vars

\* A CALL decoded straight after EI is about to run its sixth M-cycle: the
\* stored index is 6, the enable is pending with counter 1, and the EI is the
\* one instruction retired.
C40_Witness ==
    /\ instrs # <<>> /\ Cur.op = \hCD /\ bus.cpu.procedure # None
    /\ unwrap(bus.cpu.procedure).mcycle = 6
    /\ bus.cpu.en_ime = <<TRUE, 1>>
    /\ bus.cpu.instr_count = 2

====
